---------------------------- MODULE Spec2Model ----------------------------
(***************************************************************************)
(* Verification model of AirNavKML (airway_builder.py, csv_to_kml_v2.py).  *)
(*                                                                         *)
(* Text is a sequence of one-character tokens.  The tokens "deg", "ord",   *)
(* "prime" and "rq" stand for the characters U+00B0, U+00BA, U+2032 and    *)
(* U+2019.  A float is an integer number of Scale-ths of a unit            *)
(* (Scale = 36000, one tenth of an arc second when the unit is a degree).  *)
(***************************************************************************)
EXTENDS Integers, Sequences, FiniteSets, TLC

VARIABLES p_pc, p_fn, p_in, p_ctx, p_out,   \* one call of a parsing function
          n_pc, n_fn, n_in, n_out, n_dest,     \* one call of a navigation function
          route, msg, ops,                     \* the route builder
          master, m_msg, m_ops,                \* the master of airways
          e_pc, e_in, e_out,                   \* one export of CSV files to KML
          h_pc, h_fn, h_in, h_out,             \* one call of an altitude function
          c_pc, c_fn, c_in, c_out              \* one call of a column detector

pvars == <<p_pc, p_fn, p_in, p_ctx, p_out>>

nvars == <<n_pc, n_fn, n_in, n_out, n_dest>>

mvars == <<master, m_msg, m_ops>>

evars == <<e_pc, e_in, e_out>>

avars == <<route, msg, ops, mvars, evars>>

hvars == <<h_pc, h_fn, h_in, h_out>>

cvars == <<c_pc, c_fn, c_in, c_out>>

vars == <<pvars, nvars, avars, hvars, cvars>>

\* Fixed-point resolution of a float: units per 1.0.
Scale == 36 * 1000

-----------------------------------------------------------------------------
(* Characters and Python's str methods                                     *)

Digits == {"0", "1", "2", "3", "4", "5", "6", "7", "8", "9"}

\* re: [NSEW] with flags=re.I
HemiChars == {"N", "S", "E", "W", "n", "s", "e", "w"}

\* str.upper() on one character
UpperChar(c) ==
  CASE c = "n" -> "N"
    [] c = "s" -> "S"
    [] c = "e" -> "E"
    [] c = "w" -> "W"
    [] c = "f" -> "F"
    [] c = "l" -> "L"
    [] c = "t" -> "T"
    [] c = "x" -> "X"
    [] OTHER -> c

Upper(s) == [i \in 1..Len(s) |-> UpperChar(s[i])]

IsSpace(c) == c = " "

RECURSIVE LStrip(_)
LStrip(s) == IF s # <<>> /\ IsSpace(Head(s)) THEN LStrip(Tail(s)) ELSE s

RECURSIVE RStrip(_)
RStrip(s) ==
  IF s # <<>> /\ IsSpace(s[Len(s)]) THEN RStrip(SubSeq(s, 1, Len(s) - 1)) ELSE s

\* str.strip()
Strip(s) == RStrip(LStrip(s))

\* c in s, for a one-character c
Contains(s, c) == \E i \in 1..Len(s) : s[i] = c

ContainsAny(s, cs) == \E i \in 1..Len(s) : s[i] \in cs

\* str.replace(a, b) for a one-character a and a replacement text b
RECURSIVE Replace(_, _, _)
Replace(s, a, b) ==
  IF s = <<>> THEN <<>>
  ELSE (IF Head(s) = a THEN b ELSE <<Head(s)>>) \o Replace(Tail(s), a, b)

\* s.startswith(pat)
StartsWith(s, pat) == Len(s) >= Len(pat) /\ SubSeq(s, 1, Len(pat)) = pat

\* str.replace(pat, ""): the occurrences of pat removed, left to right
RECURSIVE RemoveSub(_, _)
RemoveSub(s, pat) ==
  IF s = <<>> THEN <<>>
  ELSE IF StartsWith(s, pat) THEN RemoveSub(SubSeq(s, Len(pat) + 1, Len(s)), pat)
  ELSE <<Head(s)>> \o RemoveSub(Tail(s), pat)

\* re.sub(r"[cs]", b, s): every character of the class cs replaced by b
RECURSIVE ReplaceClass(_, _, _)
ReplaceClass(s, cs, b) ==
  IF s = <<>> THEN <<>>
  ELSE (IF Head(s) \in cs THEN b ELSE <<Head(s)>>) \o ReplaceClass(Tail(s), cs, b)

\* re.sub(r"[^cs]", "", s): only the characters of the class cs are kept
Keep(s, cs) == SelectSeq(s, LAMBDA c : c \in cs)

\* position of the first character of s in the class cs, 0 when there is none
FirstIn(s, cs) ==
  IF ContainsAny(s, cs)
  THEN CHOOSE i \in 1..Len(s) : s[i] \in cs /\ \A j \in 1..(i - 1) : s[j] \notin cs
  ELSE 0

\* str.split(c): the pieces between the occurrences of c, empty ones kept
RECURSIVE Split(_, _)
Split(s, c) ==
  LET i == FirstIn(s, {c})
  IN IF i = 0 THEN <<s>>
     ELSE <<SubSeq(s, 1, i - 1)>> \o Split(SubSeq(s, i + 1, Len(s)), c)

\* [t for t in re.split(r"[cs]+", s) if t]: the maximal runs outside cs
RECURSIVE Tokens(_, _)
Tokens(s, cs) ==
  IF s = <<>> THEN <<>>
  ELSE IF Head(s) \in cs THEN Tokens(Tail(s), cs)
  ELSE LET i == FirstIn(s, cs)
       IN IF i = 0 THEN <<s>>
          ELSE <<SubSeq(s, 1, i - 1)>> \o Tokens(SubSeq(s, i, Len(s)), cs)

\* str.rjust(n, "0")
RECURSIVE RJustZero(_, _)
RJustZero(s, n) == IF Len(s) >= n THEN s ELSE RJustZero(<<"0">> \o s, n)

-----------------------------------------------------------------------------
(* Python's float(str)                                                     *)

DigitVal(c) ==
  CASE c = "0" -> 0 [] c = "1" -> 1 [] c = "2" -> 2 [] c = "3" -> 3
    [] c = "4" -> 4 [] c = "5" -> 5 [] c = "6" -> 6 [] c = "7" -> 7
    [] c = "8" -> 8 [] c = "9" -> 9

AllDigits(s) == \A i \in 1..Len(s) : s[i] \in Digits

RECURSIVE DigitsVal(_)
DigitsVal(s) ==
  IF s = <<>> THEN 0
  ELSE DigitsVal(SubSeq(s, 1, Len(s) - 1)) * 10 + DigitVal(s[Len(s)])

RECURSIVE Pow10(_)
Pow10(k) == IF k = 0 THEN 1 ELSE 10 * Pow10(k - 1)

\* rounding division, half away from zero (d > 0)
RoundDiv(n, d) == IF n >= 0 THEN (2 * n + d) \div (2 * d) ELSE -((2 * (-n) + d) \div (2 * d))

Signs == {"+", "-"}

Unsigned(s) == IF s # <<>> /\ Head(s) \in Signs THEN Tail(s) ELSE s

SignOf(s) == IF s # <<>> /\ Head(s) = "-" THEN -1 ELSE 1

\* digits with at most one dot and at least one digit: 12  12.  .5  12.5
IsDecimalBody(b) ==
  /\ b # <<>>
  /\ \A i \in 1..Len(b) : b[i] \in Digits \cup {"."}
  /\ Cardinality({i \in 1..Len(b) : b[i] = "."}) <= 1
  /\ \E i \in 1..Len(b) : b[i] \in Digits

\* the value of a decimal body in sc-ths
DecimalBodyValAt(b, sc) ==
  LET i == FirstIn(b, {"."})
      ip == IF i = 0 THEN b ELSE SubSeq(b, 1, i - 1)
      fp == IF i = 0 THEN <<>> ELSE SubSeq(b, i + 1, Len(b))
  IN DigitsVal(ip) * sc + RoundDiv(DigitsVal(fp) * sc, Pow10(Len(fp)))

DecimalBodyVal(b) == DecimalBodyValAt(b, Scale)

\* exponent part of a float literal: optional sign and at least one digit
IsExponent(x) == Unsigned(x) # <<>> /\ AllDigits(Unsigned(x))

\* float(s) succeeds: surrounding blanks are ignored, then
\* [+-]? (d+ (.d*)? | .d+) ([eE] [+-]? d+)?
IsFloat(s) ==
  LET t == Unsigned(Strip(s))
      i == FirstIn(t, {"e", "E"})
  IN IF i = 0 THEN IsDecimalBody(t)
     ELSE /\ IsDecimalBody(SubSeq(t, 1, i - 1))
          /\ IsExponent(SubSeq(t, i + 1, Len(t)))

\* the value float(s) returns, in sc-ths
FloatValAt(s, sc) ==
  LET t == Unsigned(Strip(s))
      i == FirstIn(t, {"e", "E"})
      m == DecimalBodyValAt(IF i = 0 THEN t ELSE SubSeq(t, 1, i - 1), sc)
      x == IF i = 0 THEN <<>> ELSE SubSeq(t, i + 1, Len(t))
      e == SignOf(x) * DigitsVal(Unsigned(x))
  IN SignOf(Strip(s)) * (IF e >= 0 THEN m * Pow10(e) ELSE RoundDiv(m, Pow10(-e)))

\* the value float(s) returns, in Scale-ths
FloatVal(s) == FloatValAt(s, Scale)

-----------------------------------------------------------------------------
(* Results of fallible functions: a value, or the exception that escaped   *)

Ok(v) == [ok |-> TRUE, v |-> v, exc |-> "-"]

Raise(e) == [ok |-> FALSE, v |-> 0, exc |-> e]

\* _to_float on text: strip, decimal comma to dot, float(); None on failure.
\* ok = FALSE stands for the None it returns.  The value is in sc-ths.
to_float_at(s, sc) ==
  LET t == Replace(Strip(s), ",", <<".">>)
  IN IF IsFloat(t) THEN Ok(FloatValAt(t, sc)) ELSE Raise("None")

to_float(s) == to_float_at(s, Scale)

\* the characters parse_dms_piece turns into a blank after the degree sign
MinSecMarks == {"'", "\"", "rq", "prime"}

parse_dms_piece(piece) ==
  LET p1 == Replace(Strip(ReplaceClass(piece, HemiChars, <<>>)), "ord", <<"deg">>)
      p2 == ReplaceClass(ReplaceClass(p1, {"deg"}, <<" ">>), MinSecMarks, <<" ">>)
      toks == Tokens(Strip(p2), {" ", ":"})
  IN CASE Len(toks) = 3 ->
            IF IsFloat(toks[1]) /\ IsFloat(toks[2]) /\ IsFloat(toks[3])
            THEN Ok(FloatVal(toks[1]) + RoundDiv(FloatVal(toks[2]), 60)
                    + RoundDiv(FloatVal(toks[3]), 3600))
            ELSE Raise("ValueError")
       [] Len(toks) = 2 ->
            IF IsFloat(toks[1]) /\ IsFloat(toks[2])
            THEN Ok(FloatVal(toks[1]) + RoundDiv(FloatVal(toks[2]), 60))
            ELSE Raise("ValueError")
       [] Len(toks) = 1 ->
            IF to_float(toks[1]).ok THEN Ok(to_float(toks[1]).v)
            ELSE Raise("ValueError")
       [] OTHER -> Raise("ValueError")

CoreChars == Digits \cup {"."}

UpperHemi == {"N", "S", "E", "W"}

\* m = re.match(r"^([0-9.]+)\s*([NSEW])$", s)
MatchCoreHem(s) ==
  /\ Len(s) >= 2
  /\ s[Len(s)] \in UpperHemi
  /\ LET core == RStrip(SubSeq(s, 1, Len(s) - 1))
     IN core # <<>> /\ \A i \in 1..Len(core) : core[i] \in CoreChars

\* m2 = re.match(r"^([NSEW])\s*([0-9.]+)$", s)
MatchHemCore(s) ==
  /\ Len(s) >= 2
  /\ s[1] \in UpperHemi
  /\ LET core == LStrip(Tail(s))
     IN core # <<>> /\ \A i \in 1..Len(core) : core[i] \in CoreChars

\* DegLen with the degree field one digit wide for 6 or 7 digits
DegLenNarrow(n, guess_lon) ==
  IF n \in {6, 7} THEN 1
  ELSE IF n \in {7, 8, 9} THEN 3
  ELSE IF guess_lon THEN 3 ELSE 2

\* deg_len = 2 if len(left) in (6,7) else 3 if len(left) in (7,8,9)
\*           else (3 if guess_lon else 2)
DegLen(n, guess_lon) ==
  IF n \in {6, 7} THEN 2
  ELSE IF n \in {7, 8, 9} THEN 3
  ELSE IF guess_lon THEN 3 ELSE 2

\* deg + mm/60 + ss/3600 of a compact core, the degree field dl digits wide
CompactVal(left0, frac, dl) ==
  LET left == RJustZero(left0, dl + 4)
      deg == DigitsVal(SubSeq(left, 1, dl))
      mm == DigitsVal(SubSeq(left, dl + 1, dl + 2))
      ss == DigitsVal(SubSeq(left, dl + 3, dl + 4))
      ssf == ss * Scale + (IF frac = <<>> THEN 0 ELSE DecimalBodyVal(<<"0">> \o frac))
  IN deg * Scale + RoundDiv(mm * Scale, 60) + RoundDiv(ssf, 3600)

parse_compact_dms(piece, guess_lon) ==
  LET s == Upper(Strip(piece))
      m == MatchCoreHem(s)
      m2 == MatchHemCore(s)
      hem == IF m THEN s[Len(s)] ELSE IF m2 THEN s[1] ELSE "-"
      core == IF m THEN RStrip(SubSeq(s, 1, Len(s) - 1))
              ELSE IF m2 THEN LStrip(Tail(s))
              ELSE Keep(s, CoreChars)
      i == FirstIn(core, {"."})
      left == IF i = 0 THEN core ELSE SubSeq(core, 1, i - 1)
      frac == IF i = 0 THEN <<>> ELSE SubSeq(core, i, Len(core))
      val == CompactVal(left, frac, DegLen(Len(left), guess_lon))
  IN IF core = <<>> THEN Raise("ValueError")
     \* ss = float(f"{int(ss)}{frac}") fails on a second dot
     ELSE IF frac # <<>> /\ ~IsDecimalBody(<<"0">> \o frac) THEN Raise("ValueError")
     ELSE Ok(IF hem \in {"S", "W"} THEN -val ELSE val)

-----------------------------------------------------------------------------
(* to_decimal (airway_builder.py)                                          *)

\* inputs: None, NaN, a number, or text
InNone == [t |-> "none", n |-> 0, s |-> <<>>]

InNaN == [t |-> "nan", n |-> 0, s |-> <<>>]

InNum(n) == [t |-> "num", n |-> n, s |-> <<>>]

InStr(s) == [t |-> "str", n |-> 0, s |-> s]

\* results: None, a float, ("PAIR", la, lo), or an escaped exception.
\* g records the statement that produced the result: "input" (None, NaN or a
\* number passed in), "decimal", "pair", "dms", "compact" or "fallback".
Half(k, v) == [k |-> k, v |-> v]

NoHalf == Half("none", 0)

RNone(g) == [k |-> "none", v |-> 0, la |-> NoHalf, lo |-> NoHalf, g |-> g]

RFloat(v, g) == [k |-> "float", v |-> v, la |-> NoHalf, lo |-> NoHalf, g |-> g]

RPair(la, lo) ==
  [k |-> "pair", v |-> 0, la |-> Half(la.k, la.v), lo |-> Half(lo.k, lo.v), g |-> "pair"]

RRaise(g) == [k |-> "raise", v |-> 0, la |-> NoHalf, lo |-> NoHalf, g |-> g]

Abs(x) == IF x < 0 THEN -x ELSE x

\* re.search(r"[NSEW]$", s, flags=re.I)
EndsWithHemi(s) == s # <<>> /\ s[Len(s)] \in HemiChars

\* re.search(r"[°'\"′]|:", s)
DmsMarks == {"deg", "'", "\"", "prime", ":"}

HasDigit(s) == ContainsAny(s, Digits)

\* HemiSign without the second statement
HemiSignSouthOnly(s, val) ==
  IF ContainsAny(s, {"S", "W", "s", "w"}) THEN -Abs(val) ELSE val

\* val = -abs(val) on [SW], then val = abs(val) on [NE]
HemiSign(s, val) ==
  LET v1 == IF ContainsAny(s, {"S", "W", "s", "w"}) THEN -Abs(val) ELSE val
  IN IF ContainsAny(s, {"N", "E", "n", "e"}) THEN Abs(v1) ELSE v1

\* the text after s = str(coord_str).strip().replace(",", ".")
Normalized(str) == Replace(Strip(str), ",", <<".">>)

\* the last two grammars: compact, then the digits-dot-minus fallback
CompactOrFallback(s, context) ==
  LET c == parse_compact_dms(s, context = "lon")
      s2 == Keep(s, Digits \cup {".", "-"})
  IN IF c.ok THEN RFloat(c.v, "compact")
     ELSE IF IsFloat(s2) THEN RFloat(FloatVal(s2), "fallback")
     ELSE RNone("fallback")

\* the explicit DMS grammar; parse_dms_piece is called outside any try
DmsBranch(s) ==
  LET d == parse_dms_piece(s)
  IN IF d.ok THEN RFloat(HemiSign(s, d.v), "dms") ELSE RRaise("dms")

RECURSIVE to_decimal(_, _)
to_decimal(x, context) ==
  IF x.t \in {"none", "nan"} THEN RNone("input")
  ELSE IF x.t = "num" THEN RFloat(x.n, "input")
  ELSE
    LET s == Normalized(x.s)
        parts == [i \in 1..Len(Split(s, ",")) |-> Strip(Split(s, ",")[i])]
    IN IF ~EndsWithHemi(s) /\ IsFloat(s) THEN RFloat(FloatVal(s), "decimal")
       ELSE IF /\ Contains(s, ",")
               /\ Len(parts) = 2 /\ HasDigit(parts[1]) /\ HasDigit(parts[2])
       THEN LET la == to_decimal(InStr(parts[1]), "lat")
                lo == to_decimal(InStr(parts[2]), "lon")
            IN IF la.k = "raise" \/ lo.k = "raise" THEN RRaise("pair") ELSE RPair(la, lo)
       ELSE IF ContainsAny(s, DmsMarks) THEN DmsBranch(s)
       ELSE CompactOrFallback(s, context)

-----------------------------------------------------------------------------
(* to_decimal (csv_to_kml_v2.py)                                           *)

\* hemi = the first [NSEW] of the text, upper case; "-" when there is none
FirstHemi(s) ==
  LET i == FirstIn(s, HemiChars) IN IF i = 0 THEN "-" ELSE UpperChar(s[i])

\* [t for t in re.split(r"[;,]\s*|\s{1,}", s) if re.search(r"\d", t)]
PairTokens(s) == SelectSeq(Tokens(s, {";", ",", " "}), HasDigit)

DmsBranchV2(s) ==
  LET d == parse_dms_piece(s)
      hemi == FirstHemi(s)
  IN IF ~d.ok THEN RRaise("dms")
     ELSE IF hemi \in {"S", "W"} THEN RFloat(-Abs(d.v), "dms")
     ELSE IF hemi \in {"N", "E"} THEN RFloat(Abs(d.v), "dms")
     ELSE RFloat(d.v, "dms")

RECURSIVE to_decimal_v2(_, _)
to_decimal_v2(x, context) ==
  IF x.t \in {"none", "nan"} THEN RNone("input")
  ELSE IF x.t = "num" THEN RFloat(x.n, "input")
  ELSE
    LET s == Normalized(x.s)
        toks == PairTokens(s)
    IN IF ~EndsWithHemi(s) /\ IsFloat(s) THEN RFloat(FloatVal(s), "decimal")
       ELSE IF ContainsAny(s, {",", ";", " "}) /\ Len(toks) = 2
       THEN LET la == to_decimal_v2(InStr(toks[1]), "lat")
                lo == to_decimal_v2(InStr(toks[2]), "lon")
            IN IF la.k = "raise" \/ lo.k = "raise" THEN RRaise("pair") ELSE RPair(la, lo)
       ELSE IF ContainsAny(s, DmsMarks) THEN DmsBranchV2(s)
       ELSE CompactOrFallback(s, context)

-----------------------------------------------------------------------------
(* Fixed-point trigonometry                                                *)
(*                                                                         *)
(* Coordinates are Scale-ths of a degree.  The navigation functions read   *)
(* them at whole degrees, look sines up in a half-degree table and compute *)
(* in TrigScale-ths; the results are whole degrees.  Three facts of the    *)
(* double arithmetic that the formulas depend on are kept as they are:     *)
(* tan(pi/4 + phi/2) is exactly 0.0 at phi = -90 and finite at phi = +90,  *)
(* and the clamp pi/2 - 1e-12 differs from pi/2.  PoleNear is the stored   *)
(* latitude that stands for "short of the pole by less than a degree".     *)

TrigScale == 10 * 1000

MinOf(a, b) == IF a < b THEN a ELSE b

MaxOf(a, b) == IF a > b THEN a ELSE b

Sgn(x) == IF x < 0 THEN -1 ELSE 1

\* division rounding to nearest, any sign of the divisor (d # 0)
SDiv(n, d) == IF d > 0 THEN RoundDiv(n, d) ELSE RoundDiv(-n, -d)

\* product of two TrigScale-ths
FMul(a, b) == RoundDiv(a * b, TrigScale)

\* round(sin(h/2 degrees) * TrigScale), h = 0..180
SinTab ==
  <<
     0, 87, 175, 262, 349, 436, 523, 610, 698, 785,
     872, 958, 1045, 1132, 1219, 1305, 1392, 1478, 1564, 1650,
     1736, 1822, 1908, 1994, 2079, 2164, 2250, 2334, 2419, 2504,
     2588, 2672, 2756, 2840, 2924, 3007, 3090, 3173, 3256, 3338,
     3420, 3502, 3584, 3665, 3746, 3827, 3907, 3987, 4067, 4147,
     4226, 4305, 4384, 4462, 4540, 4617, 4695, 4772, 4848, 4924,
     5000, 5075, 5150, 5225, 5299, 5373, 5446, 5519, 5592, 5664,
     5736, 5807, 5878, 5948, 6018, 6088, 6157, 6225, 6293, 6361,
     6428, 6494, 6561, 6626, 6691, 6756, 6820, 6884, 6947, 7009,
     7071, 7133, 7193, 7254, 7314, 7373, 7431, 7490, 7547, 7604,
     7660, 7716, 7771, 7826, 7880, 7934, 7986, 8039, 8090, 8141,
     8192, 8241, 8290, 8339, 8387, 8434, 8480, 8526, 8572, 8616,
     8660, 8704, 8746, 8788, 8829, 8870, 8910, 8949, 8988, 9026,
     9063, 9100, 9135, 9171, 9205, 9239, 9272, 9304, 9336, 9367,
     9397, 9426, 9455, 9483, 9511, 9537, 9563, 9588, 9613, 9636,
     9659, 9681, 9703, 9724, 9744, 9763, 9781, 9799, 9816, 9833,
     9848, 9863, 9877, 9890, 9903, 9914, 9925, 9936, 9945, 9954,
     9962, 9969, 9976, 9981, 9986, 9990, 9994, 9997, 9998, 10000,
     10000
  >>

\* sin and cos of h half-degrees
SinH(h) ==
  LET m == h % 720
  IN IF m <= 180 THEN SinTab[m + 1]
     ELSE IF m <= 360 THEN SinTab[360 - m + 1]
     ELSE IF m <= 540 THEN -SinTab[m - 360 + 1]
     ELSE -SinTab[720 - m + 1]

CosH(h) == SinH(h + 180)

\* largest r in lo..hi with r * r <= n
RECURSIVE SqrtSearch(_, _, _)
SqrtSearch(n, lo, hi) ==
  IF lo >= hi THEN lo
  ELSE LET mid == (lo + hi + 1) \div 2
       IN IF mid * mid <= n THEN SqrtSearch(n, mid, hi) ELSE SqrtSearch(n, lo, mid - 1)

\* math.sqrt on integers, rounded to nearest (n < 2^30)
ISqrt(n) ==
  LET r == SqrtSearch(n, 0, 32768)
  IN IF n - r * r > r THEN r + 1 ELSE r

\* math.sqrt of a TrigScale-th
FSqrt(a) == ISqrt(a * TrigScale)

\* least h in lo..hi with y*cos(h) - x*sin(h) <= 0
RECURSIVE AtanSearch(_, _, _, _)
AtanSearch(y, x, lo, hi) ==
  IF lo >= hi THEN hi
  ELSE LET mid == (lo + hi) \div 2
       IN IF y * CosH(mid) - x * SinH(mid) <= 0
          THEN AtanSearch(y, x, lo, mid)
          ELSE AtanSearch(y, x, mid + 1, hi)

\* atan2 in the first quadrant (y >= 0, x >= 0, not both 0), in half-degrees
AtanQ(y, x) ==
  LET h == AtanSearch(y, x, 0, 180)
  IN IF h > 0 /\ y * CosH(h - 1) - x * SinH(h - 1) < x * SinH(h) - y * CosH(h)
     THEN h - 1 ELSE h

\* math.atan2(y, x) in half-degrees, -359..360; atan2(0, 0) = 0
Atan2H(y, x) ==
  IF x = 0 /\ y = 0 THEN 0
  ELSE LET q == AtanQ(Abs(y), Abs(x))
           a == IF x >= 0 THEN q ELSE 360 - q
       IN IF y >= 0 THEN a ELSE -a

\* least d in lo..hi with sin(d degrees) >= v
RECURSIVE AsinSearch(_, _, _)
AsinSearch(v, lo, hi) ==
  IF lo >= hi THEN hi
  ELSE LET mid == (lo + hi) \div 2
       IN IF SinH(2 * mid) >= v THEN AsinSearch(v, lo, mid) ELSE AsinSearch(v, mid + 1, hi)

\* math.asin(v) in whole degrees, for 0 <= v <= TrigScale
AsinQ(v) ==
  LET d == AsinSearch(v, 0, 90)
  IN IF d > 0 /\ v - SinH(2 * (d - 1)) < SinH(2 * d) - v THEN d - 1 ELSE d

\* round(ln(tan(45 + d/2 degrees)) * TrigScale), d = 0..89
PsiTab ==
  <<
     0, 175, 349, 524, 699, 874, 1049, 1225, 1401, 1577,
     1754, 1932, 2110, 2289, 2468, 2648, 2830, 3012, 3195, 3379,
     3564, 3750, 3938, 4127, 4317, 4509, 4702, 4897, 5094, 5293,
     5493, 5696, 5900, 6107, 6317, 6528, 6743, 6960, 7180, 7403,
     7629, 7859, 8092, 8328, 8569, 8814, 9063, 9316, 9575, 9838,
     10107, 10381, 10662, 10948, 11242, 11542, 11851, 12167, 12492, 12826,
     13170, 13524, 13890, 14268, 14659, 15065, 15485, 15923, 16379, 16856,
     17354, 17877, 18427, 19008, 19623, 20276, 20973, 21721, 22528, 23404,
     24362, 25421, 26603, 27942, 29487, 31313, 33547, 36425, 40481, 47413
  >>

\* ln(tan(pi/4 + pi/4)) in doubles: tan is 1.6e16 there, not infinite
PsiNorth == 373319

\* ln(tan(pi/4 + (pi/2 - 1e-12)/2)), the value at the clamped latitude
PsiClamp == 283240

-----------------------------------------------------------------------------
(* Distances, bearings and destinations (airway_builder.py)                *)

EARTH_R_M == 6371000

\* EARTH_R_M * pi / 180: metres in one degree of arc
MetersPerDeg == 111195

\* metres in one hundredth of a degree of arc
MetersPerCentiDeg == 1112

\* pi / 180 in millionths: radians in one degree
MicroRadPerDeg == 17453

Pole == 90 * Scale

\* stored latitude short of the pole by less than the model resolves
PoleNear == Pole - 1

\* an optional coordinate: a float, or None
Some(v) == [some |-> TRUE, v |-> v]

NoneC == [some |-> FALSE, v |-> 0]

\* results of the navigation functions: a float, None, or an exception
NFloat(v) == [k |-> "float", v |-> v, exc |-> "-"]

NNone == [k |-> "none", v |-> 0, exc |-> "-"]

NRaise(e) == [k |-> "raise", v |-> 0, exc |-> e]

\* a coordinate read at whole degrees
D(x) == RoundDiv(x, Scale)

\* a coordinate read at half-degrees
H(x) == RoundDiv(x, Scale \div 2)

\* a coordinate read at hundredths of a degree
D100(x) == RoundDiv(x, Scale \div 100)

\* normalize_lon_deg on whole Scale-ths of a degree, where no step rounds
normalize_lon_deg(lon_deg) == ((lon_deg + 180 * Scale) % (360 * Scale)) - 180 * Scale

\* Binary floating point around the longitudes.  A float is an integer number
\* of LonUnit-ths of a degree; like the doubles, the floats are spaced one
\* unit apart below 256 degrees, two units from 256 to 512, four from 512 to
\* 1024 (the unit of a double is 2^-45 degree), and a result is rounded to
\* the nearest float, a tie to the even one.
LonUnit == 1024

FSpacing(x) ==
  IF Abs(x) < 256 * LonUnit THEN 1
  ELSE IF Abs(x) < 512 * LonUnit THEN 2
  ELSE IF Abs(x) < 1024 * LonUnit THEN 4
  ELSE 8

FRound(x) ==
  LET s == FSpacing(x)
      q == x \div s
      r == x % s
  IN IF 2 * r < s THEN q * s
     ELSE IF 2 * r > s THEN (q + 1) * s
     ELSE IF q % 2 = 0 THEN q * s ELSE (q + 1) * s

\* Python's x % m on floats, m > 0: fmod(x, m), and m added to a negative
\* remainder
FloatMod(x, m) ==
  IF x >= 0 \/ x % m = 0 THEN x % m
  ELSE FRound(((x % m) - m) + m)

\* normalize_lon_deg in floating point
normalize_lon_deg_float(lon_deg) ==
  FRound(FloatMod(FRound(lon_deg + 180 * LonUnit), 360 * LonUnit) - 180 * LonUnit)

AnyNone(a, b, c, d) == ~a.some \/ ~b.some \/ ~c.some \/ ~d.some

\* every bearing (brng + 360.0) % 360.0 can be, at half-degrees
AnyBearing == {h * (Scale \div 2) : h \in 0..719}

\* The possible results.  For one point taken twice y and x are both exactly
\* 0.0 and atan2(0.0, 0.0) = 0.0.  For two different points whose y and x are
\* both below the resolution (a pole, antipodes) rounding residues of the
\* doubles decide the bearing: any value of the range.
initial_bearing_true(lat1, lon1, lat2, lon2) ==
  IF AnyNone(lat1, lon1, lat2, lon2) THEN {NNone}
  ELSE
    LET f1 == H(lat1.v)
        f2 == H(lat2.v)
        dl == H(lon2.v) - H(lon1.v)
        y == FMul(SinH(dl), CosH(f2))
        x == FMul(CosH(f1), SinH(f2)) - FMul(FMul(SinH(f1), CosH(f2)), CosH(dl))
        th == Atan2H(y, x)
        same == lat1.v = lat2.v /\ lon1.v = lon2.v
    IN IF x = 0 /\ y = 0 /\ ~same THEN {NFloat(b) : b \in AnyBearing}
       ELSE {NFloat(((th + 720) % 720) * (Scale \div 2))}

\* the whole-degree latitudes phi for which the doubles give
\* a = sin(phi)^2 + cos(phi)^2 > 1 between (phi, lambda) and its antipode
AntipodeOver == {-82, -12, -8, 8, 12, 82}

\* (lat2, lon2) is the antipode of (lat1, lon1)
Antipodal(lat1, lon1, lat2, lon2) ==
  lat2 = -lat1 /\ Abs(lon2 - lon1) = 180 * Scale

\* the distance when math.sqrt(1 - a) is defined
GcArc(lat1, lon1, lat2, lon2) ==
  LET f1 == 2 * D(lat1)
      f2 == 2 * D(lat2)
      \* sin(dphi/2), sin(dlambda/2): half the difference, in half-degrees
      sf == SinH(D(lat2) - D(lat1))
      sl == SinH(D(lon2) - D(lon1))
      a0 == FMul(sf, sf) + FMul(FMul(CosH(f1), CosH(f2)), FMul(sl, sl))
      a == MinOf(a0, TrigScale)
      \* c = 2 * atan2(...): twice half-degrees are whole degrees
      c == Atan2H(FSqrt(a), FSqrt(TrigScale - a))
  IN NFloat(c * MetersPerDeg)

\* map(math.radians, [None, ...]) raises TypeError; math.sqrt(1 - a) raises
\* ValueError when a > 1
gc_distance_m(lat1, lon1, lat2, lon2) ==
  IF AnyNone(lat1, lon1, lat2, lon2) THEN NRaise("TypeError")
  ELSE IF /\ Antipodal(lat1.v, lon1.v, lat2.v, lon2.v)
          /\ lat1.v = D(lat1.v) * Scale /\ D(lat1.v) \in AntipodeOver
       THEN NRaise("ValueError")
  ELSE GcArc(lat1.v, lon1.v, lat2.v, lon2.v)

\* ln(tan(pi/4 + phi/2)) of a stored latitude other than the south pole
PsiOf(lat) ==
  IF lat = Pole THEN PsiNorth
  ELSE IF Abs(D(lat)) >= 90 THEN Sgn(lat) * PsiClamp
  ELSE Sgn(lat) * PsiTab[Abs(D(lat)) + 1]

\* q = dphi/dpsi if abs(dpsi) > 1e-12 else cos(phi1); dphi in hundredths of a degree
StretchQ(dphi_c, dpsi, lat1) ==
  IF dpsi # 0 THEN SDiv(RoundDiv(dphi_c * MicroRadPerDeg, 10000) * TrigScale, dpsi)
  ELSE CosH(2 * D(lat1))

\* dlambda = lambda2 - lambda1 as it is, in hundredths of a degree
RhumbDeltaLonRaw(lon1, lon2) == D100(lon2) - D100(lon1)

\* dlambda in hundredths of a degree, after
\* if abs(dlambda) > pi: dlambda -= copysign(2*pi, dlambda)
RhumbDeltaLon(lon1, lon2) ==
  LET dl0 == D100(lon2) - D100(lon1)
  IN IF Abs(dl0) > 18000 THEN dl0 - Sgn(dl0) * 36000 ELSE dl0

rhumb_distance_m(lat1, lon1, lat2, lon2) ==
  IF AnyNone(lat1, lon1, lat2, lon2) THEN NRaise("TypeError")
  ELSE
    \* dphi and dlambda in hundredths of a degree
    LET dphi == D100(lat2.v) - D100(lat1.v)
        dl == RhumbDeltaLon(lon1.v, lon2.v)
    IN IF lat2.v # lat1.v /\ lat1.v = -Pole THEN NRaise("ZeroDivisionError")
       ELSE IF lat2.v # lat1.v /\ lat2.v = -Pole THEN NRaise("ValueError")
       ELSE
         LET dpsi == IF lat2.v # lat1.v THEN PsiOf(lat2.v) - PsiOf(lat1.v) ELSE 0
             q == StretchQ(dphi, dpsi, lat1.v)
             qdl == RoundDiv(q * dl, TrigScale)
             delta == ISqrt(dphi * dphi + qdl * qdl)
         IN NFloat(delta * MetersPerCentiDeg)

\* a destination: (lat, lon), or the exception raised
Dest(lat, lon) == [ok |-> TRUE, lat |-> lat, lon |-> lon, exc |-> "-"]

DestRaise(e) == [ok |-> FALSE, lat |-> 0, lon |-> 0, exc |-> e]

\* a latitude in hundredths of a degree as it is stored
StoreLat(phi_c) ==
  IF Abs(phi_c) = 9000 THEN Sgn(phi_c) * Pole
  ELSE IF Abs(RoundDiv(phi_c, 100)) >= 90 THEN Sgn(phi_c) * PoleNear
  ELSE RoundDiv(phi_c, 100) * Scale

\* bearing in degrees (Scale-ths) read at half-degrees
BearingH(bearing_deg) == RoundDiv(bearing_deg, Scale \div 2)

\* every longitude a destination can carry, at whole degrees
AnyLon == {d * Scale : d \in -180..179}

\* The possible destinations.  When both arguments of atan2 are below the
\* resolution and the point moves (the origin is a pole, or the destination
\* its antipode), rounding residues of the doubles decide the longitude.
destination_gc(lat1, lon1, bearing_deg, distance_m) ==
  LET th == BearingH(bearing_deg)
      dh == RoundDiv(2 * distance_m, MetersPerDeg)
      f1 == 2 * D(lat1)
      v0 == FMul(SinH(f1), CosH(dh)) + FMul(FMul(CosH(f1), SinH(dh)), CosH(th))
      v == MaxOf(-TrigScale, MinOf(TrigScale, v0))
      lat2 == IF Abs(v) = TrigScale THEN Sgn(v) * Pole
              ELSE IF AsinQ(Abs(v)) = 90 THEN Sgn(v) * PoleNear
              ELSE Sgn(v) * AsinQ(Abs(v)) * Scale
      \* math.sin(phi2) is v again
      y == FMul(FMul(SinH(th), SinH(dh)), CosH(f1))
      x == CosH(dh) - FMul(SinH(f1), v)
  IN IF x = 0 /\ y = 0 /\ dh # 0 THEN {Dest(lat2, l) : l \in AnyLon}
     ELSE {Dest(lat2, normalize_lon_deg(lon1 + RoundDiv(Atan2H(y, x), 2) * Scale))}

\* EARTH_R_M * pi: half the circumference
HalfCircumference == 20015087

\* gc_distance_m(lat1, lon1, *destination_gc(lat1, lon1, bearing_deg, distance_m)):
\* the destination is a double next to the point the model stores, and where
\* a exceeds 1 at the stored point the residue of the destination decides
\* whether it still does
gc_round_trip(lat1, lon1, bearing_deg, distance_m) ==
  UNION {LET r == gc_distance_m(Some(lat1), Some(lon1), Some(d.lat), Some(d.lon))
         IN IF r.k = "raise" THEN {r, GcArc(lat1, lon1, d.lat, d.lon)} ELSE {r} :
           d \in destination_gc(lat1, lon1, bearing_deg, distance_m)}

\* below this stretch factor dlambda = delta*sin(theta)/q is not resolved
QMin == 100

destination_rhumb(lat1, lon1, bearing_deg, distance_m) ==
  LET th == BearingH(bearing_deg)
      delta == RoundDiv(distance_m, MetersPerCentiDeg)
      dphi == RoundDiv(delta * CosH(th), TrigScale)
      \* phi2 != phi1: delta*cos(theta) is not absorbed by phi1
      moved == distance_m > 0 /\ CosH(th) # 0
      phi2 == D100(lat1) + dphi
      \* abs(phi2) > pi/2
      clamped == \/ Abs(phi2) > 9000
                 \/ /\ Abs(phi2) = 9000 /\ Abs(D100(lat1)) = 9000
                    /\ moved /\ Sgn(CosH(th)) = Sgn(lat1)
      psi2 == IF clamped THEN Sgn(phi2) * PsiClamp ELSE PsiOf(StoreLat(phi2))
      num == RoundDiv(delta * SinH(th), TrigScale)
  IN IF moved /\ lat1 = -Pole THEN {DestRaise("ZeroDivisionError")}
     ELSE IF moved /\ ~clamped /\ phi2 = -9000 THEN {DestRaise("ValueError")}
     ELSE
       LET dpsi == IF moved THEN psi2 - PsiOf(lat1) ELSE 0
           q == StretchQ(dphi, dpsi, lat1)
           lat2 == IF clamped THEN Sgn(phi2) * PoleNear
                   ELSE IF dphi = 0 THEN lat1
                   ELSE StoreLat(phi2)
       IN IF num = 0 THEN {Dest(lat2, normalize_lon_deg(lon1))}
          ELSE IF Abs(q) < QMin THEN {Dest(lat2, l) : l \in AnyLon}
          ELSE {Dest(lat2, normalize_lon_deg(
                        lon1 + RoundDiv(SDiv(num * TrigScale, q), 100) * Scale))}

-----------------------------------------------------------------------------
(* Altitudes (airway_builder.py).  Metres are AltScale-ths of a metre; the *)
(* number typed is read in tenths.                                         *)

AltScale == 5 * 1000

\* 0.3048 m in AltScale-ths
FootAlt == 1524

\* s.endswith(pat)
EndsWith(s, pat) ==
  Len(s) >= Len(pat) /\ SubSeq(s, Len(s) - Len(pat) + 1, Len(s)) = pat

\* alt_to_meters on None or text; units is "m", "ft" or "fl"
\* the conversion without the units: every number is taken as metres
alt_to_meters_as_metres(val, units) ==
  LET n == to_float_at(Strip(RemoveSub(Upper(Strip(val.s)), <<"F", "T">>)), 10)
  IN IF val.t = "none" \/ ~n.ok THEN 0 ELSE n.v * (AltScale \div 10)

alt_to_meters(val, units) ==
  LET s == Upper(Strip(val.s))
      nfl == to_float_at(Strip(RemoveSub(s, <<"F", "L">>)), 10)
      n == to_float_at(Strip(RemoveSub(s, <<"F", "T">>)), 10)
  IN IF val.t = "none" THEN 0
     ELSE IF units = "fl" THEN (IF nfl.ok THEN nfl.v * 10 * FootAlt ELSE 0)
     ELSE IF ~n.ok THEN 0
     ELSE IF units = "ft" THEN RoundDiv(n.v * FootAlt, 10)
     ELSE n.v * (AltScale \div 10)

\* _parse_alt_value on None, NaN or text: metres, or None (ok = FALSE)
parse_alt_value(v, units) ==
  LET s == Upper(Strip(v.s))
      nfl == to_float_at(Strip(RemoveSub(s, <<"F", "L">>)), 10)
      n == to_float_at(s, 10)
      nft == to_float_at(SubSeq(s, 1, Len(s) - 2), 10)
      npre == to_float_at(SubSeq(s, 3, Len(s)), 10)
  IN IF v.t \in {"none", "nan"} THEN Raise("None")
     ELSE IF units = "fl" THEN (IF nfl.ok THEN Ok(nfl.v * 10 * FootAlt) ELSE Raise("None"))
     ELSE IF ~n.ok
     THEN IF EndsWith(s, <<"F", "T">>)
          THEN (IF nft.ok THEN Ok(RoundDiv(nft.v * FootAlt, 10)) ELSE Raise("None"))
          ELSE IF StartsWith(s, <<"F", "L">>)
          THEN (IF npre.ok THEN Ok(npre.v * 10 * FootAlt) ELSE Raise("None"))
          ELSE Raise("None")
     ELSE IF units = "ft" THEN Ok(RoundDiv(n.v * FootAlt, 10))
     ELSE Ok(n.v * (AltScale \div 10))

\* str(n) of a natural number
RECURSIVE NatText(_)
NatText(n) ==
  IF n < 10 THEN <<<<"0", "1", "2", "3", "4", "5", "6", "7", "8", "9">>[n + 1]>>
  ELSE NatText(n \div 10) \o NatText(n % 10)

\* f"{n:d}": no padding
FormatD(n) == IF n < 0 THEN <<"-">> \o NatText(-n) ELSE NatText(n)

\* f"{n:03d}": at least three characters, the minus sign counted, zeros
\* after the sign
Format03d(n) ==
  IF n < 0 THEN <<"-">> \o RJustZero(NatText(-n), 2) ELSE RJustZero(NatText(n), 3)

\* results of meters_to_units: None, a number or a text
UNone == [k |-> "none", v |-> 0, s |-> <<>>]

UNum(v) == [k |-> "num", v |-> v, s |-> <<>>]

UText(s) == [k |-> "text", v |-> 0, s |-> s]

\* round(n / d) of Python on doubles: the nearest integers.  On a tie of the
\* exact quotient the rounding residue of the double decides.
\* floor(n / d) in place of round(n / d)
FloorFloat(n, d) == {n \div d}

RoundFloat(n, d) ==
  IF 2 * (n % d) = d THEN {n \div d, (n \div d) + 1}
  ELSE IF 2 * (n % d) < d THEN {n \div d}
  ELSE {(n \div d) + 1}

\* The possible results of meters_to_units; m is None or AltScale-ths of a
\* metre.  "m": metres rounded to 2 decimals, in AltScale-ths; "ft": feet
\* rounded to 1 decimal, in tenths; "fl": the label.
meters_to_units(m, units) ==
  IF ~m.some THEN {UNone}
  ELSE IF units = "m" THEN {UNum(c * (AltScale \div 100)) : c \in RoundFloat(m.v, AltScale \div 100)}
  ELSE IF units = "ft" THEN {UNum(t) : t \in RoundFloat(5 * m.v, FootAlt \div 2)}
  ELSE IF units = "fl" THEN {UText(<<"F", "L">> \o Format03d(fl)) : fl \in RoundFloat(m.v, 100 * FootAlt)}
  ELSE {UNum(m.v)}

-----------------------------------------------------------------------------
(* Inputs of the parsing functions                                         *)

\* longest generated text
MaxLen == 3

\* most integer digits of a generated compact coordinate
MaxDigits == 10

GenAlphabet == {"1", "9", ".", ",", "-", "N", "S", ":"}

GenStrings == UNION {[1..n -> GenAlphabet] : n \in 0..MaxLen}

DigitPatterns ==
  {[i \in 1..MaxDigits |-> <<"0", "8", "4", "3", "0", "1", "5", "2", "7", "6">>[((i - 1) % 10) + 1]],
   [i \in 1..MaxDigits |-> <<"9", "3", "0", "4", "1", "2", "3", "4", "5", "6">>[((i - 1) % 10) + 1]]}

\* compact coordinates: n digits, an optional fraction, a hemisphere letter
\* before or after
CompactStrings ==
  {SubSeq(d, 1, n) \o f \o <<h>> :
      d \in DigitPatterns, n \in 1..MaxDigits, f \in {<<>>, <<".", "2">>}, h \in UpperHemi}
  \cup
  {<<h>> \o SubSeq(d, 1, n) \o f :
      d \in DigitPatterns, n \in 1..MaxDigits, f \in {<<>>, <<".", "2">>}, h \in UpperHemi}

CuratedStrings ==
  { <<"9", ".", "5", ",", "-", "8", "4", ".", "2">>,
    <<"9", ".", "5", ",", " ", "-", "8", "4", ".", "2">>,
    <<"1", "0", ",", "2", "0">>,
    <<"1", "0", ",", "2", "0", ",", "3", "0">>,
    <<"9", " ", "-", "8", "4">>,
    <<"9", ";", "-", "8", "4">>,
    <<"9", ";", " ", "8", "4", "W">>,
    <<"1", "0", "deg", "3", "0", "'", "N", " ", "8", "4", "deg", "1", "5", "'", "W">>,
    <<"1", "0", "deg", "3", "0", "'", "S", "N">>,
    <<"1", "0", "deg", " ", "3", "0", "'", "N">>,
    <<"1", "0", "deg", "0", "5", "'", "3", "0", ".", "2", "\"", "N">>,
    <<"1", "0", "deg", "3", "0", "'">>,
    <<"-", "1", "0", "deg", "3", "0", "'">>,
    <<"-", "1", "0", "deg", "3", "0", "'", "S">>,
    <<"-", "1", "0", "deg", "3", "0", "'", "N">>,
    <<"1", "0", "deg", "3", "0", "'", "S", "E">>,
    <<"1", "0", "deg", "3", "0", "'", "w">>,
    <<"W", "8", "4", "deg", "1", "5", "prime">>,
    <<"1", "0", "ord", "3", "0", "rq">>,
    <<"1", "0", "ord", "3", "0", "rq", ":">>,
    <<"1", "0", ":", "3", "0", ":", "1", "5">>,
    <<"1", "0", ":", "3", "0", " ", "W">>,
    <<"1", ":", "2", ":", "3", ":", "4">>,
    <<"1", ":", "2", ":", "3", ":", "4", "S">>,
    <<"X", ":", "X">>,
    <<"1", "0", ":", "X">>,
    <<"1", "0", "deg", "N", ",", "2", "0", "deg", "E">>,
    <<"1", "0", "deg", ",", "2", "0", "deg">>,
    <<"1", "E", "2">>,
    <<"1", "e", "1">>,
    <<"1", "8", "0">>,
    <<"1", "9", "0">>,
    <<"-", "8", "4", ".", "2">>,
    <<"+", "8", "4", ",", "2">>,
    <<" ", "9", ".", "5", " ">>,
    <<" ">>,
    <<"X", "X", "X">>,
    <<"9", "3", "0", "4", "1", "2", " ", "N">>,
    <<"9", "3", "0", "4", "1", "2", " ", " ", "n">>,
    <<"S", " ", "0", "9", "3", "0">>,
    <<"1", "2", ".", "5", ".", "3", "N">>,
    <<"0", "8", "4", "0", "0", "0", "0", "X", "W">>,
    <<"0", "8", "4", "-", "0", "0", "0", "0", "W">>,
    <<"-", "0", "8", "4", "0", "0", "0", "0", "W">>,
    <<"-", "X">>,
    <<".", "N">>,
    <<"5", "N">>,
    <<"5", ".", "N">>
  }

ParseStrings == GenStrings \cup CompactStrings \cup CuratedStrings

ParseNumbers == {-190 * Scale, -84 * Scale, 0, 9 * Scale + Scale \div 2, 180 * Scale}

ParseInputs ==
  {InNone, InNaN} \cup {InNum(n) : n \in ParseNumbers} \cup {InStr(s) : s \in ParseStrings}

Contexts == {"lat", "lon"}

-----------------------------------------------------------------------------
(* Column detection                                                        *)

UpperLetters ==
  <<"A", "B", "C", "D", "E", "F", "G", "H", "I", "J", "K", "L", "M",
    "N", "O", "P", "Q", "R", "S", "T", "U", "V", "W", "X", "Y", "Z">>

LowerLetters ==
  <<"a", "b", "c", "d", "e", "f", "g", "h", "i", "j", "k", "l", "m",
    "n", "o", "p", "q", "r", "s", "t", "u", "v", "w", "x", "y", "z">>

\* str.lower()
LowerChar(c) ==
  IF \E i \in 1..Len(UpperLetters) : UpperLetters[i] = c
  THEN LowerLetters[CHOOSE i \in 1..Len(UpperLetters) : UpperLetters[i] = c]
  ELSE c

Lower(s) == [i \in 1..Len(s) |-> LowerChar(s[i])]

\* pat in s, for texts
InText(pat, s) ==
  \E i \in 1..(Len(s) - Len(pat) + 1) : SubSeq(s, i, i + Len(pat) - 1) = pat

\* a column, or None
ColNone == [some |-> FALSE, s |-> <<>>]

Col(s) == [some |-> TRUE, s |-> s]

NoCols == [lat |-> ColNone, lon |-> ColNone, combo |-> ColNone, name |-> ColNone,
           alt |-> ColNone, type |-> ColNone]

\* low = [c.lower() for c in cols]
Low(cols) == [i \in 1..Len(cols) |-> Lower(cols[i])]

\* [i for i, c in enumerate(low) if any(k in c for k in keys)]
Matching(cols, keys) == {i \in 1..Len(cols) : \E k \in keys : InText(k, Low(cols)[i])}

\* [i for i, c in enumerate(low) if c in keys]
Equal(cols, keys) == {i \in 1..Len(cols) : Low(cols)[i] \in keys}

MinIx(S) == CHOOSE i \in S : \A j \in S : i <= j

MaxIx(S) == CHOOSE i \in S : \A j \in S : j <= i

\* cols[ix[0]] if ix else None
FirstCol(cols, ix) == IF ix = {} THEN ColNone ELSE Col(cols[MinIx(ix)])

\* for prefer in keys: if prefer in low: return cols[low.index(prefer)]
Preferred(cols, keys) ==
  LET present == {k \in 1..Len(keys) : Equal(cols, {keys[k]}) # {}}
  IN IF present = {} THEN ColNone
     ELSE Col(cols[MinIx(Equal(cols, {keys[MinIx(present)]}))])

\* low = {c.lower(): c for c in df.columns}; for key in keys: if key in low:
\* return low[key]  (the dict keeps the last column of each lowered name)
PreferredLast(cols, keys) ==
  LET present == {k \in 1..Len(keys) : Equal(cols, {keys[k]}) # {}}
  IN IF present = {} THEN ColNone
     ELSE Col(cols[MaxIx(Equal(cols, {keys[MinIx(present)]}))])

LatKeys == {<<"l", "a", "t">>}

LonKeys == {<<"l", "o", "n">>, <<"l", "o", "n", "g">>}

ComboKeys == {<<"c", "o", "o", "r", "d">>, <<"w", "g", "s">>, <<"g", "e", "o", "g">>}

ComboExact == {<<"p", "o", "s", "i", "t", "i", "o", "n">>, <<"p", "o", "s">>, <<"l", "o", "c", "a", "t", "i", "o", "n">>}

\* the combined-coordinate candidates: the substring matches, then the
\* exact matches
ComboCol(cols) ==
  IF Matching(cols, ComboKeys) # {} THEN FirstCol(cols, Matching(cols, ComboKeys))
  ELSE FirstCol(cols, Equal(cols, ComboExact))

\* airway_builder.detect_coord_columns
detect_coord_columns(cols) ==
  [lat |-> FirstCol(cols, Matching(cols, LatKeys)),
   lon |-> FirstCol(cols, Matching(cols, LonKeys)),
   combo |-> ComboCol(cols),
   name |-> Preferred(cols, <<<<"n", "a", "m", "e">>, <<"i", "d">>, <<"f", "i", "x">>, <<"w", "p", "t">>>>),
   alt |-> Preferred(cols, <<<<"a", "l", "t">>, <<"a", "l", "t", "u", "r", "a">>, <<"n", "i", "v", "e", "l">>>>),
   type |-> Preferred(cols, <<<<"t", "y", "p", "e">>, <<"t", "i", "p", "o">>>>)]

\* csv_to_kml_v2.detect_coord_columns
detect_coord_columns_v2(cols) ==
  LET lat_col == FirstCol(cols, Matching(cols, LatKeys))
      lon_col == FirstCol(cols, Matching(cols, LonKeys))
  IN [NoCols EXCEPT !.lat = lat_col, !.lon = lon_col,
                    !.combo = IF ~lat_col.some \/ ~lon_col.some THEN ComboCol(cols)
                              ELSE ColNone]

\* csv_to_kml_v2.POINTS_NAME_COLUMN, POINTS_TYPE_COLUMN
POINTS_NAME_COLUMN == ColNone

POINTS_TYPE_COLUMN == ColNone

Configured(cols, c) == c.some /\ \E i \in 1..Len(cols) : cols[i] = c.s

CoordKeys == {<<"l", "a", "t">>, <<"l", "o", "n">>, <<"l", "o", "n", "g">>, <<"c", "o", "o", "r", "d">>, <<"w", "g", "s">>, <<"g", "e", "o", "g">>, <<"p", "o", "s", "i", "t", "i", "o", "n">>, <<"p", "o", "s">>, <<"l", "o", "c", "a", "t", "i", "o", "n">>}

pick_name_column(cols) ==
  IF Configured(cols, POINTS_NAME_COLUMN) THEN POINTS_NAME_COLUMN
  ELSE IF PreferredLast(cols, <<<<"n", "a", "m", "e">>, <<"d", "e", "s", "i", "g", "n", "a", "t", "i", "o", "n">>, <<"d", "e", "s", "i", "g", "n", "a", "t", "o", "r">>, <<"i", "d", "e", "n", "t", "i", "f", "i", "e", "r">>, <<"i", "d">>, <<"n", "a", "v", "a", "i", "d">>, <<"a", "e", "r", "o", "d", "r", "o", "m", "e">>, <<"s", "t", "a", "t", "i", "o", "n">>>>).some THEN PreferredLast(cols, <<<<"n", "a", "m", "e">>, <<"d", "e", "s", "i", "g", "n", "a", "t", "i", "o", "n">>, <<"d", "e", "s", "i", "g", "n", "a", "t", "o", "r">>, <<"i", "d", "e", "n", "t", "i", "f", "i", "e", "r">>, <<"i", "d">>, <<"n", "a", "v", "a", "i", "d">>, <<"a", "e", "r", "o", "d", "r", "o", "m", "e">>, <<"s", "t", "a", "t", "i", "o", "n">>>>)
  ELSE IF Matching(cols, CoordKeys) # 1..Len(cols)
       THEN Col(cols[MinIx((1..Len(cols)) \ Matching(cols, CoordKeys))])
  ELSE Col(cols[1])

pick_type_column(cols) ==
  IF Configured(cols, POINTS_TYPE_COLUMN) THEN POINTS_TYPE_COLUMN
  ELSE PreferredLast(cols, <<<<"t", "y", "p", "e">>, <<"c", "l", "a", "s", "s">>, <<"c", "a", "t", "e", "g", "o", "r", "y">>, <<"k", "i", "n", "d">>, <<"u", "s", "a", "g", "e">>>>)

-----------------------------------------------------------------------------
(* Specification of the parser: one call of to_decimal on any input        *)

Files == {"airway_builder", "csv_to_kml_v2"}

\* the variables of a specification that makes no parsing call
ParseIdle ==
  /\ p_pc = "off"
  /\ p_fn = "-"
  /\ p_in = InNone
  /\ p_ctx = "-"
  /\ p_out = RNone("-")

\* the variables of a specification that makes no navigation call
NavIdle ==
  /\ n_pc = "off"
  /\ n_fn = "-"
  /\ n_in = [lat1 |-> NoneC, lon1 |-> NoneC, lat2 |-> NoneC, lon2 |-> NoneC,
             bearing |-> 0, distance |-> 0, rhumb |-> FALSE]
  /\ n_out = NNone
  /\ n_dest = {}

\* the outcome of the last handler of run_streamlit_app: op is the handler,
\* res its outcome, leg the leg it was asked to correct, lat, lon the
\* destination it computed, warn whether st.warning was shown
NoMsg == [op |-> "-", res |-> "-", leg |-> 0, lat |-> 0, lon |-> 0, warn |-> FALSE]

\* the variables of a specification that makes no altitude call
AltIdle ==
  /\ h_pc = "off"
  /\ h_fn = "-"
  /\ h_in = [val |-> InNone, m |-> NoneC, units |-> "-"]
  /\ h_out = UNone

\* the variables of a specification that makes no column detection
ColsIdle ==
  /\ c_pc = "off"
  /\ c_fn = "-"
  /\ c_in = <<>>
  /\ c_out = NoCols

NoMasterMsg == [op |-> "-", res |-> "-", route_id |-> "-", sec_mode |-> "-"]

\* st.session_state.master_df as the session creates it
MasterIdle ==
  /\ master = <<>>
  /\ m_msg = NoMasterMsg
  /\ m_ops = 0

NoFile == [some |-> FALSE, headers |-> <<>>, rows |-> <<>>]

NoKml == [res |-> "-", placemarks |-> <<>>, coords |-> <<>>]

ExportIdle ==
  /\ e_pc = "idle"
  /\ e_in = [points |-> NoFile, routes |-> NoFile]
  /\ e_out = NoKml

\* the variables of a specification in which no route is built
AppIdle ==
  /\ route = <<>>
  /\ msg = NoMsg
  /\ ops = 0
  /\ MasterIdle
  /\ ExportIdle

InitParse ==
  /\ p_pc = "call"
  /\ p_fn \in Files
  /\ p_in \in ParseInputs
  /\ p_ctx \in Contexts
  /\ p_out = RNone("-")
  /\ NavIdle
  /\ AppIdle
  /\ AltIdle
  /\ ColsIdle

ToDecimal ==
  /\ p_pc = "call"
  /\ p_fn = "airway_builder"
  /\ p_out' = to_decimal(p_in, p_ctx)
  /\ p_pc' = "done"
  /\ UNCHANGED <<p_fn, p_in, p_ctx, nvars, avars, hvars, cvars>>

ToDecimalV2 ==
  /\ p_pc = "call"
  /\ p_fn = "csv_to_kml_v2"
  /\ p_out' = to_decimal_v2(p_in, p_ctx)
  /\ p_pc' = "done"
  /\ UNCHANGED <<p_fn, p_in, p_ctx, nvars, avars, hvars, cvars>>

NextParse == ToDecimal \/ ToDecimalV2

SpecParse == InitParse /\ [][NextParse]_vars

-----------------------------------------------------------------------------
(* Properties of the parsing functions (SpecParse)                         *)

\* the value of to_decimal of the file under call
ToDecimalOf(fn, s, context) ==
  IF fn = "airway_builder" THEN to_decimal(InStr(s), context)
  ELSE to_decimal_v2(InStr(s), context)

\* the two halves of a text around its only comma
CommaHalves(s) == Split(Strip(s), ",")

\* a text made of two digit-bearing halves separated by a comma
IsPairText(s) ==
  /\ Len(CommaHalves(s)) = 2
  /\ HasDigit(CommaHalves(s)[1])
  /\ HasDigit(CommaHalves(s)[2])

\* C1: to_decimal of a text made of two digit-bearing halves separated by a
\* comma returns a pair whose halves are the first half parsed with axis lat
\* and the second half parsed with axis lon.
C1_PairResult ==
  (p_pc = "done" /\ p_in.t = "str" /\ IsPairText(p_in.s)) =>
    LET la == ToDecimalOf(p_fn, Strip(CommaHalves(p_in.s)[1]), "lat")
        lo == ToDecimalOf(p_fn, Strip(CommaHalves(p_in.s)[2]), "lon")
    IN /\ p_out.k = "pair"
       /\ p_out.la = Half(la.k, la.v)
       /\ p_out.lo = Half(lo.k, lo.v)

\* C2: for every input to_decimal returns a float, a pair or None; no
\* exception escapes.
C2_NeverRaises ==
  p_pc = "done" => p_out.k \in {"none", "float", "pair"}

\* the integer digits and the fraction of a compact coordinate
CompactLeft(s) ==
  LET core == Keep(s, CoreChars)
      i == FirstIn(core, {"."})
  IN IF i = 0 THEN core ELSE SubSeq(core, 1, i - 1)

CompactFrac(s) ==
  LET core == Keep(s, CoreChars)
      i == FirstIn(core, {"."})
  IN IF i = 0 THEN <<>> ELSE SubSeq(core, i, Len(core))

\* the width of the degree field as documented: 2 for 6 digits, 3 for 8 or
\* 9, and for 7 digits 3 when the axis is lon and 2 otherwise
DocumentedDegLen(n, lon) ==
  IF n = 6 THEN 2 ELSE IF n \in {8, 9} THEN 3 ELSE IF lon THEN 3 ELSE 2

\* C8: a compact coordinate with 6 to 9 integer digits is read with the
\* degree field 2 wide for 6 digits, 3 wide for 8 or 9 digits, and for 7
\* digits 3 wide when the axis hint is lon and 2 wide otherwise.
C8_DegreeWidth ==
  (/\ p_pc = "done" /\ p_in.t = "str" /\ p_in.s \in CompactStrings
   /\ p_out.g = "compact"
   /\ Len(CompactLeft(p_in.s)) \in 6..9) =>
    Abs(p_out.v) = CompactVal(CompactLeft(p_in.s), CompactFrac(p_in.s),
                              DocumentedDegLen(Len(CompactLeft(p_in.s)), p_ctx = "lon"))

Text930412N == <<"9", "3", "0", "4", "1", "2", "N">>

\* C9 as stated: to_decimal("930412N", "lat") is 9 degrees 30 minutes 41.2
\* seconds north.
C9_AsStated ==
  (p_pc = "done" /\ p_in = InStr(Text930412N) /\ p_ctx = "lat") =>
    (p_out.k = "float" /\ p_out.v = 9 * Scale + 30 * (Scale \div 60) + 412 * (Scale \div 36000))

\* C9: to_decimal("930412N", "lat") is parsed by the compact grammar as
\* degrees = 93, minutes = 4, seconds = 12 (about 93.07), the six digits
\* being read as DDMMSS.
C9_Compact930412N ==
  (p_pc = "done" /\ p_in = InStr(Text930412N) /\ p_ctx = "lat") =>
    p_out = RFloat(93 * Scale + 4 * (Scale \div 60) + 12 * (Scale \div 3600), "compact")

C9_Witness ==
  /\ p_pc = "done" /\ p_in = InStr(Text930412N) /\ p_ctx = "lat"
  /\ p_fn = "airway_builder"
  /\ p_out.g = "compact"

HasSouthWest(s) == ContainsAny(s, {"S", "W", "s", "w"})

HasNorthEast(s) == ContainsAny(s, {"N", "E", "n", "e"})

\* C10 as stated: the result of the explicit-DMS grammar is <= 0 whenever
\* the text contains S or W and >= 0 whenever it contains N or E.
C10_AsStated ==
  (p_pc = "done" /\ p_in.t = "str" /\ p_out.k = "float" /\ p_out.g = "dms") =>
    /\ HasSouthWest(p_in.s) => p_out.v <= 0
    /\ HasNorthEast(p_in.s) => p_out.v >= 0

\* C10: the sign of the result of the explicit-DMS grammar is forced by the
\* hemisphere letters.  In airway_builder the result is >= 0 whenever the
\* text contains N or E, and <= 0 whenever it contains S or W and neither N
\* nor E.  In csv_to_kml_v2 the first hemisphere letter of the text decides:
\* <= 0 when it is S or W, >= 0 when it is N or E.
C10_HemisphereSign ==
  (p_pc = "done" /\ p_in.t = "str" /\ p_out.k = "float" /\ p_out.g = "dms") =>
    /\ p_fn = "airway_builder" =>
         /\ HasNorthEast(p_in.s) => p_out.v >= 0
         /\ (HasSouthWest(p_in.s) /\ ~HasNorthEast(p_in.s)) => p_out.v <= 0
    /\ p_fn = "csv_to_kml_v2" =>
         /\ FirstHemi(Normalized(p_in.s)) \in {"N", "E"} => p_out.v >= 0
         /\ FirstHemi(Normalized(p_in.s)) \in {"S", "W"} => p_out.v <= 0

\* a text with a minus sign and a northern letter went through the
\* explicit-DMS grammar of airway_builder
C10_Witness ==
  /\ p_pc = "done" /\ p_fn = "airway_builder" /\ p_in.t = "str"
  /\ p_out.k = "float" /\ p_out.g = "dms"
  /\ Contains(p_in.s, "-") /\ HasNorthEast(p_in.s) /\ ~HasSouthWest(p_in.s)
  /\ p_out.v > 0

-----------------------------------------------------------------------------
(* Specification of the navigation functions: one call on any input        *)

NavLats == {-Pole, -PoleNear, -45 * Scale, 0, 10 * Scale, 12 * Scale, PoleNear, Pole}

NavLons == {-180 * Scale, -(179 * Scale + Scale \div 2), 0, 20 * Scale,
            179 * Scale + Scale \div 2, 180 * Scale}

NavBearings == {0, 45 * Scale, 90 * Scale, 180 * Scale, 225 * Scale, 360 * Scale}

\* 0, 60, 600 and 5400 nautical miles, and a quarter of the circumference
NavDistances == {0, 60 * 1852, 600 * 1852, 5400 * 1852, 10007543}

OptOf(S) == {NoneC} \cup {Some(v) : v \in S}

\* longitudes for normalize_lon_deg, in LonUnit-ths: the floats around whole
\* degrees
MaxUlps == 3

NormLons ==
  {L \in {a * LonUnit + k : a \in {-900, -540, -181, -180, -179, -1, 0, 179, 180, 181, 540, 900},
                            k \in (-MaxUlps)..MaxUlps} : FRound(L) = L}

\* the leg listing of run_streamlit_app for one leg a -> b: the distance in
\* metres of the chosen mode, or the exception that ends the run (the bearing
\* is computed first, never raises and is only displayed)
LegListing(a_lat, a_lon, b_lat, b_lon, use_rhumb) ==
  LET d_gc == gc_distance_m(a_lat, a_lon, b_lat, b_lon)
      d_rh == rhumb_distance_m(a_lat, a_lon, b_lat, b_lon)
  IN IF d_gc.k = "raise" THEN d_gc
     ELSE IF d_rh.k = "raise" THEN d_rh
     ELSE IF use_rhumb THEN d_rh ELSE d_gc

InitNav ==
  /\ n_pc = "call"
  /\ n_fn \in {"initial_bearing_true", "gc_distance_m", "rhumb_distance_m", "legs",
               "destination_gc", "destination_rhumb", "normalize_lon_deg",
               "gc_round_trip"}
  /\ \/ /\ n_fn \in {"initial_bearing_true", "gc_distance_m", "rhumb_distance_m", "legs"}
        /\ n_in \in [lat1 : OptOf(NavLats), lon1 : OptOf(NavLons),
                     lat2 : OptOf(NavLats), lon2 : OptOf(NavLons),
                     bearing : {0}, distance : {0}, rhumb : BOOLEAN]
        /\ n_fn # "legs" => ~n_in.rhumb
     \/ /\ n_fn \in {"destination_gc", "destination_rhumb"}
        /\ n_in \in [lat1 : {Some(v) : v \in NavLats}, lon1 : {Some(v) : v \in NavLons},
                     lat2 : {NoneC}, lon2 : {NoneC},
                     bearing : NavBearings, distance : NavDistances, rhumb : {FALSE}]
     \/ /\ n_fn = "gc_round_trip"
        /\ n_in \in [lat1 : {Some(v) : v \in NavLats}, lon1 : {Some(v) : v \in NavLons},
                     lat2 : {NoneC}, lon2 : {NoneC},
                     bearing : NavBearings \ {360 * Scale},
                     distance : NavDistances \cup {HalfCircumference}, rhumb : {FALSE}]
     \/ /\ n_fn = "normalize_lon_deg"
        /\ n_in \in [lat1 : {NoneC}, lon1 : {Some(v) : v \in NormLons},
                     lat2 : {NoneC}, lon2 : {NoneC},
                     bearing : {0}, distance : {0}, rhumb : {FALSE}]
  /\ n_out = NNone
  /\ n_dest = {}
  /\ ParseIdle
  /\ AppIdle
  /\ AltIdle
  /\ ColsIdle

NavReturn(r) ==
  /\ n_out' = r
  /\ n_pc' = "done"
  /\ UNCHANGED <<n_fn, n_in, n_dest, pvars, avars, hvars, cvars>>

CallBearing ==
  /\ n_pc = "call" /\ n_fn = "initial_bearing_true"
  /\ \E r \in initial_bearing_true(n_in.lat1, n_in.lon1, n_in.lat2, n_in.lon2) :
        NavReturn(r)

CallGcDistance ==
  /\ n_pc = "call" /\ n_fn = "gc_distance_m"
  /\ NavReturn(gc_distance_m(n_in.lat1, n_in.lon1, n_in.lat2, n_in.lon2))

CallRhumbDistance ==
  /\ n_pc = "call" /\ n_fn = "rhumb_distance_m"
  /\ NavReturn(rhumb_distance_m(n_in.lat1, n_in.lon1, n_in.lat2, n_in.lon2))

CallLegListing ==
  /\ n_pc = "call" /\ n_fn = "legs"
  /\ NavReturn(LegListing(n_in.lat1, n_in.lon1, n_in.lat2, n_in.lon2, n_in.rhumb))

CallGcRoundTrip ==
  /\ n_pc = "call" /\ n_fn = "gc_round_trip"
  /\ \E r \in gc_round_trip(n_in.lat1.v, n_in.lon1.v, n_in.bearing, n_in.distance) :
        NavReturn(r)

\* normalize_lon_deg(lon1), lon1 and the result in LonUnit-ths
CallNormalizeLon ==
  /\ n_pc = "call" /\ n_fn = "normalize_lon_deg"
  /\ NavReturn(NFloat(normalize_lon_deg_float(n_in.lon1.v)))

CallDestinationGc ==
  /\ n_pc = "call" /\ n_fn = "destination_gc"
  /\ n_dest' = destination_gc(n_in.lat1.v, n_in.lon1.v, n_in.bearing, n_in.distance)
  /\ n_pc' = "done"
  /\ UNCHANGED <<n_fn, n_in, n_out, pvars, avars, hvars, cvars>>

CallDestinationRhumb ==
  /\ n_pc = "call" /\ n_fn = "destination_rhumb"
  /\ n_dest' = destination_rhumb(n_in.lat1.v, n_in.lon1.v, n_in.bearing, n_in.distance)
  /\ n_pc' = "done"
  /\ UNCHANGED <<n_fn, n_in, n_out, pvars, avars, hvars, cvars>>

NextNav ==
  \/ CallBearing
  \/ CallGcDistance
  \/ CallRhumbDistance
  \/ CallLegListing
  \/ CallDestinationGc
  \/ CallDestinationRhumb
  \/ CallNormalizeLon
  \/ CallGcRoundTrip

SpecNav == InitNav /\ [][NextNav]_vars

-----------------------------------------------------------------------------
(* Properties of the navigation functions (SpecNav)                        *)

AllPresent == n_in.lat1.some /\ n_in.lon1.some /\ n_in.lat2.some /\ n_in.lon2.some

SamePoint == n_in.lat1 = n_in.lat2 /\ n_in.lon1 = n_in.lon2

\* C3: initial_bearing_true of a point and itself, both coordinates present,
\* returns None; of two distinct points it returns a bearing in [0, 360).
C3_SamePointNone ==
  (n_pc = "done" /\ n_fn = "initial_bearing_true" /\ AllPresent) =>
    IF SamePoint THEN n_out.k = "none"
    ELSE n_out.k = "float" /\ 0 <= n_out.v /\ n_out.v < 360 * Scale

\* C4: initial_bearing_true, gc_distance_m and rhumb_distance_m called with
\* at least one None coordinate return None, and the leg listing of such a
\* leg is computed without an exception.
C4_NoneShortCircuits ==
  (n_pc = "done" /\ ~AllPresent) =>
    /\ n_fn \in {"initial_bearing_true", "gc_distance_m", "rhumb_distance_m"} =>
         n_out.k = "none"
    /\ n_fn = "legs" => n_out.k # "raise"

\* lat1 + (distance / R) * cos(bearing) in hundredths of a degree
UnclampedLat(lat1, bearing_deg, distance_m) ==
  D100(lat1) + RoundDiv(RoundDiv(distance_m, MetersPerCentiDeg) * CosH(BearingH(bearing_deg)),
                        TrigScale)

\* C18: destination_rhumb, for every origin, bearing and distance >= 0,
\* returns a (lat, lon) pair and never raises, and whenever the unclamped
\* latitude reaches or passes +-90 degrees the returned latitude has the
\* magnitude pi/2 - 1e-12 radians.
C18_PolarClamp ==
  (n_pc = "done" /\ n_fn = "destination_rhumb") =>
    \A r \in n_dest :
      /\ r.ok
      /\ Abs(UnclampedLat(n_in.lat1.v, n_in.bearing, n_in.distance)) >= 90 * 100 =>
           Abs(r.lat) = PoleNear

RhumbCall == n_pc = "done" /\ n_fn = "rhumb_distance_m" /\ AllPresent

AntimeridianLeg ==
  /\ n_in.lat1.v = 0 /\ n_in.lon1.v = 179 * Scale + Scale \div 2
  /\ n_in.lat2.v = 0 /\ n_in.lon2.v = -(179 * Scale + Scale \div 2)

\* C19: for longitudes in [-180, 180] the longitude delta rhumb_distance_m
\* uses has magnitude at most 180 degrees; for A = (0, 179.5) and
\* B = (0, -179.5) the delta is 1 degree and the distance is about 111 km.
C19_Antimeridian ==
  RhumbCall =>
    /\ Abs(RhumbDeltaLon(n_in.lon1.v, n_in.lon2.v)) <= 180 * 100
    /\ AntimeridianLeg =>
         /\ Abs(RhumbDeltaLon(n_in.lon1.v, n_in.lon2.v)) = 100
         /\ n_out.k = "float"
         /\ Abs(n_out.v - 111 * 1000) <= 1000

C19_Witness ==
  /\ RhumbCall
  /\ AntimeridianLeg
  /\ n_out = NFloat(100 * MetersPerCentiDeg)

\* the resolution of a round trip: the destination is stored at whole
\* degrees, so the distance back is off by up to a degree of arc
RoundTripResolution == MetersPerDeg

\* C20: for every origin A, bearing in [0, 360) and distance d from 0 to half
\* the circumference, gc_distance_m(A, destination_gc(A, bearing, d)) returns
\* a distance, and it is d within a relative tolerance of 1e-3 (compared here
\* up to the resolution of the stored destination).
C20_GcRoundTrip ==
  (n_pc = "done" /\ n_fn = "gc_round_trip") =>
    /\ n_out.k = "float"
    /\ Abs(n_out.v - n_in.distance) <= n_in.distance \div 1000 + RoundTripResolution

\* C17: for every longitude L, normalize_lon_deg(L) lies in [-180, 180), and
\* normalizing it again returns it unchanged.
C17_NormalizeRange ==
  (n_pc = "done" /\ n_fn = "normalize_lon_deg") =>
    /\ n_out.k = "float"
    /\ -180 * LonUnit <= n_out.v /\ n_out.v < 180 * LonUnit
    /\ normalize_lon_deg_float(n_out.v) = n_out.v

-----------------------------------------------------------------------------
(* Specification of the altitude functions: one call on any input          *)

\* longest generated altitude text
MaxAltLen == 3

AltAlphabet == {"2", "5", " ", "F", "L", "T", "f", "t", "-"}

AltGenerated == UNION {[1..n -> AltAlphabet] : n \in 0..MaxAltLen}

AltCurated ==
  { <<"7", "5", "0", "0">>,
    <<"7", "5", "0", "0", " ", "f", "t">>,
    <<"7", "5", "0", "0", "F", "T">>,
    <<"2", "3", "0", "0", " ", "f", "t">>,
    <<"1", "0", "0", ".", "5">>,
    <<".", "5">>,
    <<"2", ".">>,
    <<"2", ".", "5", ".">>,
    <<"1", "0", "0", ",", "5">>,
    <<"1", "0", "0", ".", "5", "f", "t">>,
    <<"F", "L", "1", "2", "0">>,
    <<"F", "L", "1", "0", "0">>,
    <<"f", "l", "0", "8", "5">>,
    <<"F", "L", " ", "1", "2", "0">>,
    <<" ", "F", "L", "1", "2", "0", " ">>,
    <<"1", "2", "0">>,
    <<"1", "2", "0", "F", "L">>,
    <<"1", "F", "L", "2", "0">>,
    <<"F", "L", "-", "0", "3">>,
    <<"F", "L", "1", "0", "0", "0">>,
    <<"-", "1", "0", "0">>,
    <<"X", "X">>,
    <<"1", "2", "0", "X">>,
    <<"F", "L", "X">>,
    <<"1", "e", "2">>,
    <<"7", "5", "0", "0", " ", "m">>
  }

AltTexts == AltGenerated \cup AltCurated

AltUnits == {"m", "ft", "fl"}

\* altitudes in metres (AltScale-ths): whole flight levels, halves between
\* two flight levels, and others
AltMeters ==
  {k * 100 * FootAlt : k \in {-3, -1, 0, 1, 85, 100, 120, 999, 1000, 1005}}
  \cup {k * 50 * FootAlt : k \in {-3, -1, 1, 3, 171, 1999, 2001}}
  \cup {-10 * AltScale, -1, 1, 25, 26, 762, 76199, 76201, 10 * AltScale,
        2286 * AltScale, 2591 * AltScale, 10000 * AltScale}

InitAlt ==
  /\ h_pc = "call"
  /\ h_fn \in {"alt_to_meters", "_parse_alt_value", "meters_to_units", "fl_round_trip"}
  /\ \/ /\ h_fn = "alt_to_meters"
        /\ h_in \in [val : {InNone} \cup {InStr(s) : s \in AltTexts}, m : {NoneC},
                     units : AltUnits]
     \/ /\ h_fn = "_parse_alt_value"
        /\ h_in \in [val : {InNone, InNaN} \cup {InStr(s) : s \in AltTexts}, m : {NoneC},
                     units : AltUnits]
     \/ /\ h_fn = "meters_to_units"
        /\ h_in \in [val : {InNone}, m : OptOf(AltMeters), units : AltUnits \cup {"nm"}]
     \/ /\ h_fn = "fl_round_trip"
        /\ h_in \in [val : {InNone}, m : {Some(m) : m \in AltMeters}, units : {"fl"}]
  /\ h_out = UNone
  /\ ParseIdle
  /\ NavIdle
  /\ AppIdle
  /\ ColsIdle

AltReturn(r) ==
  /\ h_out' = r
  /\ h_pc' = "done"
  /\ UNCHANGED <<h_fn, h_in, pvars, nvars, avars, cvars>>

CallAltToMeters ==
  /\ h_pc = "call" /\ h_fn = "alt_to_meters"
  /\ AltReturn(UNum(alt_to_meters(h_in.val, h_in.units)))

CallParseAltValue ==
  /\ h_pc = "call" /\ h_fn = "_parse_alt_value"
  /\ AltReturn(LET r == parse_alt_value(h_in.val, h_in.units)
               IN IF r.ok THEN UNum(r.v) ELSE UNone)

CallMetersToUnits ==
  /\ h_pc = "call" /\ h_fn = "meters_to_units"
  /\ \E r \in meters_to_units(h_in.m, h_in.units) : AltReturn(r)

\* alt_to_meters(meters_to_units(m, "fl"), "fl")
CallFlRoundTrip ==
  /\ h_pc = "call" /\ h_fn = "fl_round_trip"
  /\ \E r \in meters_to_units(h_in.m, "fl") :
       AltReturn(UNum(alt_to_meters(InStr(r.s), "fl")))

NextAlt ==
  \/ CallAltToMeters
  \/ CallParseAltValue
  \/ CallMetersToUnits
  \/ CallFlRoundTrip

SpecAlt == InitAlt /\ [][NextAlt]_vars

-----------------------------------------------------------------------------
(* Properties of the altitude conversions (SpecAlt)                        *)

\* an altitude that is not there: None, an empty or blank text, or a text
\* without any digit
AbsentAltitude(val) == val.t = "none" \/ (val.t = "str" /\ ~HasDigit(val.s))

\* C11: alt_to_meters given None, an empty string or an unparseable string
\* reports absence and not the number 0.
C11_AbsentNotZero ==
  (h_pc = "done" /\ h_fn = "alt_to_meters" /\ AbsentAltitude(h_in.val)) =>
    h_out.k = "none"

\* numeric texts and the numbers they denote, in tenths
NumericAlt ==
  {[text |-> <<"2">>, tenths |-> 20],
   [text |-> <<"5">>, tenths |-> 50],
   [text |-> <<"2", "5">>, tenths |-> 250],
   [text |-> <<"-", "2">>, tenths |-> -20],
   [text |-> <<"0", "8", "5">>, tenths |-> 850],
   [text |-> <<"1", "0", "0">>, tenths |-> 1000],
   [text |-> <<"1", "2", "0">>, tenths |-> 1200],
   [text |-> <<"-", "1", "0", "0">>, tenths |-> -1000],
   [text |-> <<"2", "3", "0", "0">>, tenths |-> 23000],
   [text |-> <<"7", "5", "0", "0">>, tenths |-> 75000],
   [text |-> <<"1", "0", "0", ".", "5">>, tenths |-> 1005],
   [text |-> <<"1", "0", "0", ",", "5">>, tenths |-> 1005],
   [text |-> <<".", "5">>, tenths |-> 5],
   [text |-> <<"2", ".">>, tenths |-> 20]}

OptSpace == {<<>>, <<" ">>}

\* a numeric text, optionally followed by the token FT in any case
FtForms(text) ==
  {text \o sp \o tok : sp \in OptSpace,
     tok \in {<<>>, <<"F", "T">>, <<"f", "t">>, <<"F", "t">>, <<"f", "T">>}}

\* a numeric text, optionally prefixed by FL
FlForms(text) ==
  {tok \o sp \o text : sp \in OptSpace,
     tok \in {<<>>, <<"F", "L">>, <<"f", "l">>}}

\* C12: alt_to_meters converts by units: under "m" a numeric text n gives n;
\* under "ft" a numeric text n optionally followed by FT (any case) gives
\* n * 0.3048; under "fl" a numeric text n optionally prefixed by FL gives
\* n * 100 * 0.3048, so that "FL100" gives 3048.
C12_ConvertsByUnits ==
  (h_pc = "done" /\ h_fn = "alt_to_meters" /\ h_in.val.t = "str") =>
    /\ \A e \in NumericAlt :
         /\ (h_in.units = "m" /\ h_in.val.s = e.text) =>
              h_out = UNum(e.tenths * (AltScale \div 10))
         /\ (h_in.units = "ft" /\ h_in.val.s \in FtForms(e.text)) =>
              h_out = UNum((e.tenths \div 5) * (FootAlt \div 2))
         /\ (h_in.units = "fl" /\ h_in.val.s \in FlForms(e.text)) =>
              h_out = UNum(e.tenths * 10 * FootAlt)
    /\ (h_in.units = "fl" /\ h_in.val.s = <<"F", "L", "1", "0", "0">>) =>
         h_out = UNum(3048 * AltScale)

C12_Witness ==
  /\ h_pc = "done" /\ h_fn = "alt_to_meters" /\ h_in.units = "ft"
  /\ h_in.val = InStr(<<"7", "5", "0", "0", " ", "f", "t">>)
  /\ h_out = UNum(2286 * AltScale)

\* self-describing altitude strings: "FL<n>" and "<n> ft", with the metres
\* they denote
SelfDescribing ==
  {[text |-> <<"F", "L", "1", "2", "0">>, metres |-> 120 * 100 * FootAlt],
   [text |-> <<"F", "L", "1", "0", "0">>, metres |-> 100 * 100 * FootAlt],
   [text |-> <<"F", "L", "2">>, metres |-> 2 * 100 * FootAlt],
   [text |-> <<"7", "5", "0", "0", " ", "f", "t">>, metres |-> 7500 * FootAlt],
   [text |-> <<"2", "3", "0", "0", " ", "f", "t">>, metres |-> 2300 * FootAlt],
   [text |-> <<"2", "f", "t">>, metres |-> 2 * FootAlt]}

\* C13: alt_to_meters accepts "FL<n>" and "<n> ft" under every units setting:
\* "FL<n>" is n * 100 * 0.3048 metres and "<n> ft" is n * 0.3048 metres, the
\* value _parse_alt_value returns for that string and units.
C13_SelfDescribing ==
  (h_pc = "done" /\ h_fn = "alt_to_meters" /\ h_in.val.t = "str") =>
    \A e \in SelfDescribing :
      h_in.val.s = e.text =>
        /\ h_out = UNum(e.metres)
        /\ parse_alt_value(h_in.val, h_in.units) = Ok(e.metres)

FlCall == h_pc = "done" /\ h_fn = "meters_to_units" /\ h_in.units = "fl" /\ h_in.m.some

\* "FL" and exactly three decimal digits
ThreeDigitLabel(r) ==
  /\ r.k = "text"
  /\ Len(r.s) = 5
  /\ SubSeq(r.s, 1, 2) = <<"F", "L">>
  /\ AllDigits(SubSeq(r.s, 3, 5))

\* the level k is an integer nearest to (m / 0.3048) / 100
NearestLevel(k, m) == Abs(m - k * 100 * FootAlt) <= 50 * FootAlt

\* C14, as stated: for every altitude m, meters_to_units(m, "fl") is "FL" and
\* exactly three decimal digits encoding the integer nearest to
\* (m / 0.3048) / 100.
C14_AsStated ==
  FlCall =>
    /\ ThreeDigitLabel(h_out)
    /\ NearestLevel(DigitsVal(SubSeq(h_out.s, 3, 5)), h_in.m.v)

\* (m / 0.3048) / 100 lies strictly between -0.5 and 999.5
LevelInRange(m) == -50 * FootAlt < m /\ m < 99950 * FootAlt

\* C14, amended: for every altitude m with (m / 0.3048) / 100 strictly
\* between -0.5 and 999.5, meters_to_units(m, "fl") is "FL" and exactly three
\* decimal digits encoding the integer nearest to (m / 0.3048) / 100.
C14_ThreeDigits ==
  (FlCall /\ LevelInRange(h_in.m.v)) =>
    /\ ThreeDigitLabel(h_out)
    /\ NearestLevel(DigitsVal(SubSeq(h_out.s, 3, 5)), h_in.m.v)

C14_Witness ==
  /\ FlCall
  /\ h_in.m.v = 2591 * AltScale
  /\ h_out = UText(<<"F", "L", "0", "8", "5">>)

\* alt_to_meters(meters_to_units(m, "fl"), "fl"), every value it can take
FlRoundTrip(m) == {alt_to_meters(InStr(r.s), "fl") : r \in meters_to_units(Some(m), "fl")}

HundredFeet == 100 * FootAlt

\* C15: the flight-level round trip returns m when m is an exact multiple of
\* 100 ft, and otherwise the nearest multiple of 100 ft; a second round trip
\* changes nothing.
C15_FlRoundTrip ==
  (h_pc = "done" /\ h_fn = "fl_round_trip") =>
    /\ h_out.k = "num"
    /\ (h_in.m.v % HundredFeet = 0 => h_out.v = h_in.m.v)
    /\ h_out.v % HundredFeet = 0
    /\ Abs(h_out.v - h_in.m.v) <= HundredFeet \div 2
    /\ FlRoundTrip(h_out.v) = {h_out.v}

C15_Witness ==
  /\ h_pc = "done" /\ h_fn = "fl_round_trip"
  /\ h_in.m.v = 2591 * AltScale
  /\ h_out = UNum(85 * HundredFeet)

-----------------------------------------------------------------------------
(* One call of a column detector on the headers of a table (SpecCols)      *)

MaxCols == 4

\* header names
Headers ==
  {<<"D", "e", "s", "i", "g", "n", "a", "d", "o", "r">>,
   <<"L", "A", "T", "I", "T", "U", "D">>,
   <<"L", "O", "N", "G", "I", "T", "U", "D">>,
   <<"T", "i", "p", "o">>,
   <<"N", "a", "m", "e">>,
   <<"N", "A", "M", "E">>,
   <<"A", "l", "t", "u", "r", "a">>,
   <<"T", "y", "p", "e">>,
   <<"C", "o", "o", "r", "d", "e", "n", "a", "d", "a", "s">>,
   <<"P", "o", "s">>,
   <<"L", "a", "t", "L", "o", "n", "g">>}

\* df.columns: distinct headers, at least one
HeaderLists ==
  UNION {{cols \in [1..n -> Headers] : \A i, j \in 1..n : i # j => cols[i] # cols[j]} :
           n \in 1..MaxCols}

Detectors == {"airway_builder.detect_coord_columns", "csv_to_kml_v2.detect_coord_columns",
              "csv_to_kml_v2.pick_name_column", "csv_to_kml_v2.pick_type_column"}

InitCols ==
  /\ c_pc = "call"
  /\ c_fn \in Detectors
  /\ c_in \in HeaderLists
  /\ c_out = NoCols
  /\ ParseIdle
  /\ NavIdle
  /\ AppIdle
  /\ AltIdle

ColsReturn(r) ==
  /\ c_out' = r
  /\ c_pc' = "done"
  /\ UNCHANGED <<c_fn, c_in, pvars, nvars, avars, hvars>>

DetectCoordColumns ==
  /\ c_pc = "call" /\ c_fn = "airway_builder.detect_coord_columns"
  /\ ColsReturn(detect_coord_columns(c_in))

DetectCoordColumnsV2 ==
  /\ c_pc = "call" /\ c_fn = "csv_to_kml_v2.detect_coord_columns"
  /\ ColsReturn(detect_coord_columns_v2(c_in))

PickNameColumn ==
  /\ c_pc = "call" /\ c_fn = "csv_to_kml_v2.pick_name_column"
  /\ ColsReturn([NoCols EXCEPT !.name = pick_name_column(c_in)])

PickTypeColumn ==
  /\ c_pc = "call" /\ c_fn = "csv_to_kml_v2.pick_type_column"
  /\ ColsReturn([NoCols EXCEPT !.type = pick_type_column(c_in)])

NextCols ==
  \/ DetectCoordColumns
  \/ DetectCoordColumnsV2
  \/ PickNameColumn
  \/ PickTypeColumn

SpecCols == InitCols /\ [][NextCols]_vars

-----------------------------------------------------------------------------
(* Properties of the column detection (SpecCols)                           *)

ScenarioHeaders == <<<<"D", "e", "s", "i", "g", "n", "a", "d", "o", "r">>, <<"L", "A", "T", "I", "T", "U", "D">>, <<"L", "O", "N", "G", "I", "T", "U", "D">>, <<"T", "i", "p", "o">>>>

\* the detectors that assign the coordinate, the type and the name roles
CoordDetectors == {"airway_builder.detect_coord_columns", "csv_to_kml_v2.detect_coord_columns"}

TypeDetectors == {"airway_builder.detect_coord_columns", "csv_to_kml_v2.pick_type_column"}

NameDetectors == {"airway_builder.detect_coord_columns", "csv_to_kml_v2.pick_name_column"}

\* the keywords of the name role, and of the coordinate and altitude roles
NameKeywords == {<<"n", "a", "m", "e">>, <<"i", "d">>, <<"f", "i", "x">>, <<"w", "p", "t">>, <<"d", "e", "s", "i", "g", "n", "a", "t", "o", "r">>, <<"i", "d", "e", "n", "t", "i", "f", "i", "e", "r">>, <<"n", "a", "v", "a", "i", "d">>, <<"a", "e", "r", "o", "d", "r", "o", "m", "e">>, <<"s", "t", "a", "t", "i", "o", "n">>}

CoordAltKeywords == {<<"l", "a", "t">>, <<"l", "o", "n">>, <<"l", "o", "n", "g">>, <<"c", "o", "o", "r", "d">>, <<"w", "g", "s">>, <<"g", "e", "o", "g">>, <<"p", "o", "s", "i", "t", "i", "o", "n">>, <<"p", "o", "s">>, <<"l", "o", "c", "a", "t", "i", "o", "n">>, <<"a", "l", "t">>, <<"a", "l", "t", "u", "r", "a">>, <<"n", "i", "v", "e", "l">>}

NoNameKeyword(cols) == \A i \in 1..Len(cols) : Lower(cols[i]) \notin NameKeywords

\* the headers that match no coordinate or altitude keyword
PlainHeaders(cols) ==
  {i \in 1..Len(cols) : \A k \in CoordAltKeywords : ~InText(k, Lower(cols[i]))}

\* C16: on the headers Designador, LATITUD, LONGITUD, Tipo the detection
\* gives lat = LATITUD, lon = LONGITUD, type = Tipo and name = Designador;
\* in general, when no header equals a name keyword, the name is the first
\* header that matches no coordinate or altitude keyword.
C16_ColumnDetection ==
  c_pc = "done" =>
    /\ c_in = ScenarioHeaders =>
         /\ (c_fn \in CoordDetectors =>
               c_out.lat = Col(ScenarioHeaders[2]) /\ c_out.lon = Col(ScenarioHeaders[3]))
         /\ (c_fn \in TypeDetectors => c_out.type = Col(ScenarioHeaders[4]))
         /\ (c_fn \in NameDetectors => c_out.name = Col(ScenarioHeaders[1]))
    /\ (c_fn \in NameDetectors /\ NoNameKeyword(c_in) /\ PlainHeaders(c_in) # {}) =>
         c_out.name = Col(c_in[MinIx(PlainHeaders(c_in))])

-----------------------------------------------------------------------------
(* Specification of the route builder of run_streamlit_app: manual        *)
(* add-point and leg correction on st.session_state.route_rows            *)

\* the number of handler runs explored
MaxOps == 3

\* what the user typed in the manual add-point form
CoordTexts == {<<>>, <<"1", "0", ",", "2", "0">>, <<"1", ":", "2", ":", "3", ":", "4">>}

LatTexts == {<<>>, <<"-", "9", "0">>, <<"0">>, <<"4", "5">>, <<"9", "1">>}

LonTexts == {<<"0">>, <<"1", "8", "0">>, <<"1", "9", "0">>}

NameAlt == {[name_in |-> "", alt_val |-> <<>>, alt_units |-> "ft"],
            [name_in |-> "A", alt_val |-> <<"F", "L", "1", "0", "0">>, alt_units |-> "fl"]}

AddForms ==
  {[name_in |-> na.name_in, coord_in |-> c, lat_in |-> la, lon_in |-> lo,
    alt_val |-> na.alt_val, alt_units |-> na.alt_units] :
      na \in NameAlt, c \in CoordTexts, la \in LatTexts, lo \in LonTexts}

\* the inputs of the leg correction: desired bearing, and the distance in
\* nautical miles typed when "Mantener distancia actual" is unticked
DesiredBearings == {0, 90 * Scale, 225 * Scale}

TypedDistancesNm == {0, 60, 600}

NoRow == [name |-> "-", lat |-> 0, lon |-> 0, alt_m |-> 0]

\* the row the handler appends
NewRow(f, lat, lon) ==
  [name |-> IF f.name_in = "" THEN "WPT" ELSE f.name_in,
   lat |-> lat, lon |-> lon,
   alt_m |-> alt_to_meters(InStr(f.alt_val), f.alt_units)]

\* the "Agregar punto manual" handler once its calls of to_decimal returned:
\* returned[1] on "Coordenada" (not called on blank text), returned[2] and
\* returned[3] on the "Lat" and "Lon" fields.  res is "appended" with the
\* row, "invalid" (st.error) or "raised" (an exception of to_decimal ends the
\* run before anything is appended).
ManualAddOn(f, returned) ==
  LET parsed == returned[1]
      lat == returned[2]
      lon == returned[3]
      blank == Strip(f.coord_in) = <<>>
      paired == ~blank /\ parsed.k = "pair" /\ parsed.la.k = "float" /\ parsed.lo.k = "float"
      warn == ~blank /\ parsed.k \in {"none", "float"}
  IN IF ~blank /\ parsed.k = "raise" THEN [res |-> "raised", warn |-> FALSE, row |-> NoRow]
     ELSE IF paired
     THEN [res |-> "appended", warn |-> FALSE, row |-> NewRow(f, parsed.la.v, parsed.lo.v)]
     ELSE IF lat.k = "raise" \/ lon.k = "raise"
     THEN [res |-> "raised", warn |-> warn, row |-> NoRow]
     ELSE IF \/ lat.k # "float" \/ lon.k # "float"
             \/ ~(-Pole <= lat.v /\ lat.v <= Pole)
             \/ ~(-180 * Scale <= lon.v /\ lon.v <= 180 * Scale)
     THEN [res |-> "invalid", warn |-> warn, row |-> NoRow]
     ELSE [res |-> "appended", warn |-> warn, row |-> NewRow(f, lat.v, lon.v)]

\* the calls of to_decimal of the handler, in order: on "Coordenada", on
\* "Lat" and on "Lon"
ManualCalls(f) ==
  <<[text |-> f.coord_in, context |-> "lat"],
    [text |-> f.lat_in, context |-> "lat"],
    [text |-> f.lon_in, context |-> "lon"]>>

\* the body of the "Agregar punto manual" handler on one form
ManualAdd(f) ==
  ManualAddOn(f, [i \in 1..3 |->
                    to_decimal(InStr(ManualCalls(f)[i].text), ManualCalls(f)[i].context)])

\* ManualAdd on every form
ManualAddOf == [f \in AddForms |-> ManualAdd(f)]

\* the listing of leg j (rows j and j+1) of the leg loop
ListLeg(rows, j, use_rhumb) ==
  LegListing(Some(rows[j].lat), Some(rows[j].lon),
             Some(rows[j + 1].lat), Some(rows[j + 1].lon), use_rhumb)

\* the leg loop reaches the expander of leg i: no listing before it raised
LegReached(rows, i, use_rhumb) ==
  \A j \in 1..i : ListLeg(rows, j, use_rhumb).k # "raise"

\* CorrectedRow that also resets the altitude of the end point
CorrectedRowResetAlt(row, r) == [row EXCEPT !.lat = r.lat, !.lon = r.lon, !.alt_m = 0]

\* the assignments of the correct-leg handler to the end point of the leg
CorrectedRow(row, r) == [row EXCEPT !.lat = r.lat, !.lon = r.lon]

\* ApplyCorrection that assigns the latitude only
ApplyCorrectionLatOnly(rows, i, r) ==
  IF r.ok THEN [rows EXCEPT ![i + 1].lat = r.lat] ELSE rows

\* the rows after the correct-leg handler of leg i computed r: an exception
\* of the destination function leaves the handler before any assignment
ApplyCorrection(rows, i, r) ==
  IF r.ok THEN [rows EXCEPT ![i + 1] = CorrectedRow(@, r)] ELSE rows

Init ==
  /\ route = <<>>
  /\ msg = NoMsg
  /\ ops = 0
  /\ MasterIdle
  /\ ExportIdle
  /\ ParseIdle
  /\ NavIdle
  /\ AltIdle
  /\ ColsIdle

\* AddPointManual that puts the new point in front of the route
AddPointManualInFront ==
  /\ ops < MaxOps
  /\ \E f \in AddForms :
       LET a == ManualAddOf[f]
       IN /\ route' = IF a.res = "appended" THEN <<a.row>> \o route ELSE route
          /\ msg' = [op |-> "add", res |-> a.res, leg |-> 0,
                     lat |-> a.row.lat, lon |-> a.row.lon, warn |-> a.warn]
  /\ ops' = ops + 1
  /\ UNCHANGED <<pvars, nvars, hvars, cvars, mvars, evars>>

\* "Agregar punto manual"
AddPointManual ==
  /\ ops < MaxOps
  /\ \E f \in AddForms :
       LET a == ManualAddOf[f]
       IN /\ route' = IF a.res = "appended" THEN Append(route, a.row) ELSE route
          /\ msg' = [op |-> "add", res |-> a.res, leg |-> 0,
                     lat |-> a.row.lat, lon |-> a.row.lon, warn |-> a.warn]
  /\ ops' = ops + 1
  /\ UNCHANGED <<pvars, nvars, hvars, cvars, mvars, evars>>

\* "Corregir punto final del tramo i"
CorrectLeg ==
  /\ ops < MaxOps
  /\ \E i \in 1..(Len(route) - 1), use_rhumb \in BOOLEAN, desired \in DesiredBearings,
        keep_dist \in BOOLEAN, typed \in TypedDistancesNm :
       /\ LegReached(route, i, use_rhumb)
       /\ keep_dist => typed = 0
       /\ LET dist_m == IF keep_dist THEN ListLeg(route, i, use_rhumb).v
                        ELSE typed * 1852
              dests == IF use_rhumb
                       THEN destination_rhumb(route[i].lat, route[i].lon, desired, dist_m)
                       ELSE destination_gc(route[i].lat, route[i].lon, desired, dist_m)
          IN \E r \in dests :
               /\ route' = ApplyCorrection(route, i, r)
               /\ msg' = [op |-> "correct", res |-> IF r.ok THEN "corrected" ELSE "raised",
                          leg |-> i, lat |-> r.lat, lon |-> r.lon, warn |-> FALSE]
  /\ ops' = ops + 1
  /\ UNCHANGED <<pvars, nvars, hvars, cvars, mvars, evars>>

Next == AddPointManual \/ CorrectLeg

Spec == Init /\ [][Next]_vars

-----------------------------------------------------------------------------
(* Properties of the route builder (Spec)                                  *)

\* C5: leg correction is atomic: after the correct-leg handler of leg i,
\* either lat and lon of point i+1 both hold the destination it computed or
\* both keep their previous values, also when the computation raised.
C5_CorrectionAtomic ==
  [][msg'.op = "correct" =>
       LET b == msg'.leg + 1
       IN \/ route'[b].lat = msg'.lat /\ route'[b].lon = msg'.lon
          \/ route'[b].lat = route[b].lat /\ route'[b].lon = route[b].lon]_vars

\* a correction whose destination function raised has run
C5_Witness ==
  /\ msg.op = "correct" /\ msg.res = "raised"
  /\ Len(route) > msg.leg

\* C6: correcting leg i changes only the lat and lon of point i+1: its name
\* and altitude, every other point, the number of points and their order
\* are unchanged.
C6_CorrectionFrame ==
  [][msg'.op = "correct" =>
       /\ Len(route') = Len(route)
       /\ \A j \in 1..Len(route) :
            /\ route'[j].name = route[j].name
            /\ route'[j].alt_m = route[j].alt_m
            /\ j # msg'.leg + 1 => route'[j] = route[j]]_vars

\* a correction has moved an end point that has a name and an altitude
C6_Witness ==
  /\ msg.op = "correct" /\ msg.res = "corrected"
  /\ route[msg.leg + 1].lat = msg.lat /\ route[msg.leg + 1].lon = msg.lon
  /\ route[msg.leg + 1].alt_m # 0
  /\ route[msg.leg + 1].name = "A"
  /\ route[msg.leg].lat # msg.lat

\* C7: after any sequence of manual add-point and correct-leg operations
\* from the empty route, every point has -90 <= lat <= 90 and
\* -180 <= lon < 180.
C7_RouteInRange ==
  \A j \in 1..Len(route) :
    /\ -Pole <= route[j].lat /\ route[j].lat <= Pole
    /\ -180 * Scale <= route[j].lon /\ route[j].lon < 180 * Scale

-----------------------------------------------------------------------------
\* The master of airways: "Agregar RUTA ACTUAL al maestro"

MaxAppends == 3

RouteIds == {"A1", "B2"}

SecModes == {"continuar si existe", "reiniciar en 1"}

ExportUnits == {"ft", "m", "fl"}

\* a route of three points as the manual form builds them
MasterRoutes ==
  {<<[name |-> "WPT", lat |-> 45 * Scale, lon |-> 0, alt_m |-> 0],
     [name |-> "A", lat |-> 0, lon |-> 180 * Scale,
      alt_m |-> alt_to_meters(InStr(<<"F", "L", "1", "0", "0">>), "fl")],
     [name |-> "WPT", lat |-> -Pole, lon |-> 0, alt_m |-> 0]>>}

Aerovias(df) == {df[i].Aerovia : i \in 1..Len(df)}

\* the greatest Sec of the route in the master
next_sec_for_route_last(df, route_id) ==
  LET sub == {i \in 1..Len(df) : df[i].Aerovia = route_id}
  IN IF sub = {} THEN 1
     ELSE CHOOSE m \in {df[i].Sec : i \in sub} : \A i \in sub : df[i].Sec <= m

next_sec_for_route(df, route_id) ==
  LET sub == {i \in 1..Len(df) : df[i].Aerovia = route_id}
  IN IF sub = {} THEN 1
     ELSE (CHOOSE m \in {df[i].Sec : i \in sub} : \A i \in sub : df[i].Sec <= m) + 1

\* the altitudes meters_to_units can give for the rows, one per row
MasterAlts(rows, export_units) ==
  {a \in [1..Len(rows) ->
            UNION {meters_to_units(Some(rows[i].alt_m), export_units) : i \in 1..Len(rows)}] :
     \A i \in 1..Len(rows) : a[i] \in meters_to_units(Some(rows[i].alt_m), export_units)}

\* the data frame "cur" of the current route
CurrentRows(rows, route_id, sec_start, alts) ==
  [i \in 1..Len(rows) |->
     [Aerovia |-> route_id, Sec |-> sec_start + i - 1, Name |-> rows[i].name,
      Lat |-> rows[i].lat, Lon |-> rows[i].lon, Alt |-> alts[i]]]

InitMaster ==
  /\ route \in MasterRoutes
  /\ msg = NoMsg
  /\ ops = 0
  /\ MasterIdle
  /\ ExportIdle
  /\ ParseIdle
  /\ NavIdle
  /\ AltIdle
  /\ ColsIdle

\* "Agregar RUTA ACTUAL al maestro"
AppendRouteToMaster ==
  /\ m_ops < MaxAppends
  /\ \E route_id \in RouteIds, export_units \in ExportUnits, sec_mode \in SecModes :
       IF Len(route) < 2
       THEN /\ master' = master
            /\ m_msg' = [op |-> "append", res |-> "warning", route_id |-> route_id,
                         sec_mode |-> sec_mode]
       ELSE LET sec_start == IF sec_mode = "reiniciar en 1" THEN 1
                             ELSE next_sec_for_route(master, route_id)
            IN \E alts \in MasterAlts(route, export_units) :
                 /\ master' = master \o CurrentRows(route, route_id, sec_start, alts)
                 /\ m_msg' = [op |-> "append", res |-> "appended", route_id |-> route_id,
                              sec_mode |-> sec_mode]
  /\ m_ops' = m_ops + 1
  /\ UNCHANGED <<pvars, nvars, hvars, cvars, evars, route, msg, ops>>

\* "Vaciar maestro (sesion)"
ClearMaster ==
  /\ master # <<>>
  /\ master' = <<>>
  /\ m_msg' = [op |-> "clear", res |-> "-", route_id |-> "-", sec_mode |-> "-"]
  /\ UNCHANGED <<pvars, nvars, hvars, cvars, evars, route, msg, ops, m_ops>>

\* a row of the route is deleted in the data editor
EditorDeleteRow ==
  /\ \E i \in 1..Len(route) :
       route' = SubSeq(route, 1, i - 1) \o SubSeq(route, i + 1, Len(route))
  /\ m_msg' = [op |-> "edit", res |-> "-", route_id |-> "-", sec_mode |-> "-"]
  /\ UNCHANGED <<pvars, nvars, hvars, cvars, evars, msg, ops, master, m_ops>>

NextMaster == AppendRouteToMaster \/ ClearMaster \/ EditorDeleteRow

SpecMaster == InitMaster /\ [][NextMaster]_vars

NoSharedSec(df) ==
  \A i, j \in 1..Len(df) :
    i # j => <<df[i].Aerovia, df[i].Sec>> # <<df[j].Aerovia, df[j].Sec>>

\* C22 as stated: whatever numbering mode is chosen at each append, no two
\* rows of the master share the same (Aerovia, Sec) pair.
C22_AsStated == NoSharedSec(master)

\* C22: an append never changes or reorders the rows already in the master,
\* an append with fewer than 2 route points leaves the master unchanged, and
\* no two rows share an (Aerovia, Sec) pair as long as "reiniciar en 1" is
\* chosen only for an Aerovia that has no rows in the master.
C22_MasterAppend ==
  [][m_msg'.op = "append" =>
       /\ Len(master') >= Len(master)
       /\ SubSeq(master', 1, Len(master)) = master
       /\ Len(route) < 2 => master' = master
       /\ (/\ NoSharedSec(master)
           /\ \/ m_msg'.sec_mode = "continuar si existe"
              \/ m_msg'.route_id \notin Aerovias(master))
          => NoSharedSec(master')]_vars

\* a route is appended a second time to its airway and continues the numbering
C22_Witness ==
  /\ m_msg.op = "append" /\ m_msg.res = "appended"
  /\ m_msg.sec_mode = "continuar si existe"
  /\ Len(master) = 5
  /\ master[1].Aerovia = "A1" /\ master[4].Aerovia = "A1"
  /\ master[3].Sec = 3 /\ master[4].Sec = 4 /\ master[5].Sec = 5
  /\ master[5].Alt = UText(<<"F", "L", "1", "0", "0">>)

-----------------------------------------------------------------------------
\* Export of CSV files to KML: csv_to_kml_from_files and build_kml

MaxRows == 2

KmlRaise == [res |-> "raised", placemarks |-> <<>>, coords |-> <<>>]

\* a row for build_kml: lat and lon as to_decimal returned them, alt_m as
\* _parse_alt_value returned it (not ok: None)
KmlRow(name, lat, lon, alt_m) == [name |-> name, lat |-> lat, lon |-> lon, alt_m |-> alt_m]

\* f"{x:.8f}" and float(x) work on a number only
Formats(x) == x.k = "float"

build_kml(points_rows, route_rows) ==
  LET line == IF Len(route_rows) >= 2 THEN route_rows ELSE <<>>
      Bad(r) == ~r.alt_m.ok \/ ~Formats(r.lat) \/ ~Formats(r.lon)
  IN IF \/ \E i \in 1..Len(points_rows) : Bad(points_rows[i])
        \/ \E i \in 1..Len(line) : Bad(line[i])
     THEN KmlRaise
     ELSE [res |-> "written",
           placemarks |-> [i \in 1..Len(points_rows) |->
                             [name |-> IF points_rows[i].name = <<>> THEN <<"W", "P", "T">>
                                       ELSE points_rows[i].name,
                              lon |-> points_rows[i].lon.v, lat |-> points_rows[i].lat.v,
                              altm |-> RoundDiv(points_rows[i].alt_m.v, AltScale \div 100)]],
           coords |-> [i \in 1..Len(line) |->
                         [lon |-> line[i].lon.v, lat |-> line[i].lat.v,
                          altm |-> RoundDiv(line[i].alt_m.v, AltScale \div 100)]]]

\* row[col] of a data frame; row.get(col) gives None for a column the file lacks
CellOf(headers, row, col) ==
  IF \E i \in 1..Len(headers) : headers[i] = col
  THEN row[CHOOSE i \in 1..Len(headers) : headers[i] = col]
  ELSE InNone

HalfResult(h) == IF h.k = "float" THEN RFloat(h.v, "pair") ELSE RNone("pair")

\* one row of the points CSV: lines 372-387
PointsRow(headers, row, det, dec) ==
  LET straight == det.lat.some /\ det.lon.some
      parsed == dec[CellOf(headers, row, det.combo.s), "lat"]
      paired == ~straight /\ det.combo.some /\ parsed.k = "pair"
      lat == IF straight THEN dec[CellOf(headers, row, det.lat.s), "lat"]
             ELSE IF paired THEN HalfResult(parsed.la) ELSE RNone("input")
      lon == IF straight THEN dec[CellOf(headers, row, det.lon.s), "lon"]
             ELSE IF paired THEN HalfResult(parsed.lo) ELSE RNone("input")
      raised == \/ lat.k = "raise" \/ lon.k = "raise"
                \/ ~straight /\ det.combo.some /\ parsed.k = "raise"
  IN [raised |-> raised,
      keep |-> lat.k # "none" /\ lon.k # "none",
      row |-> KmlRow(IF det.name.some THEN CellOf(headers, row, det.name.s).s
                     ELSE <<"W", "P", "T">>,
                     lat, lon,
                     IF det.alt.some
                     THEN parse_alt_value(CellOf(headers, row, det.alt.s), "ft")
                     ELSE Ok(0))]

\* one row of the routes CSV: lines 392-398
RoutesRow(headers, row, dec) ==
  LET lat == dec[CellOf(headers, row, <<"L", "a", "t">>), "lat"]
      lon == dec[CellOf(headers, row, <<"L", "o", "n">>), "lon"]
      name == CellOf(headers, row, <<"N", "a", "m", "e">>)
  IN [raised |-> lat.k = "raise" \/ lon.k = "raise",
      keep |-> lat.k # "none" /\ lon.k # "none",
      row |-> KmlRow(IF name.t = "none" THEN <<"W", "P", "T">> ELSE name.s, lat, lon,
                     parse_alt_value(CellOf(headers, row, <<"A", "l", "t">>), "ft"))]

KeptRows(read) ==
  LET kept == SelectSeq(read, LAMBDA r : r.keep)
  IN [i \in 1..Len(kept) |-> kept[i].row]

csv_to_kml_from_files(points_csv, routes_csv, dec) ==
  LET det == detect_coord_columns(points_csv.headers)
      pts == [i \in 1..Len(points_csv.rows) |->
                PointsRow(points_csv.headers, points_csv.rows[i], det, dec)]
      rts == [i \in 1..Len(routes_csv.rows) |->
                RoutesRow(routes_csv.headers, routes_csv.rows[i], dec)]
  IN IF \/ \E i \in 1..Len(pts) : pts[i].raised
        \/ \E i \in 1..Len(rts) : rts[i].raised
     THEN KmlRaise
     ELSE build_kml(KeptRows(pts), KeptRows(rts))

NameCells == {InStr(<<"P">>)}

LatCells == {InStr(<<"4", "5">>), InNaN}

LonCells == {InStr(<<"2", "0">>)}

AltCells == {InStr(<<"1", "0", "0">>), InStr(<<"a", "b", "c">>), InNaN}

HeadersAlt == <<<<"N", "a", "m", "e">>, <<"L", "a", "t">>, <<"L", "o", "n">>, <<"A", "l", "t">>>>

HeadersNoAlt == <<<<"N", "a", "m", "e">>, <<"L", "a", "t">>, <<"L", "o", "n">>>>

RowsAlt == {<<n, la, lo, al>> : n \in NameCells, la \in LatCells, lo \in LonCells, al \in AltCells}

RowsNoAlt == {<<n, la, lo>> : n \in NameCells, la \in LatCells, lo \in LonCells}

UpTo(S) == UNION {[1..n -> S] : n \in 0..MaxRows}

CsvFiles ==
  {[some |-> TRUE, headers |-> HeadersAlt, rows |-> rs] : rs \in UpTo(RowsAlt)}
  \cup {[some |-> TRUE, headers |-> HeadersNoAlt, rows |-> rs] : rs \in UpTo(RowsNoAlt)}

\* to_decimal on every coordinate cell of the files
ExportDecimalOf ==
  [c \in LatCells \cup LonCells \cup {InNone}, context \in {"lat", "lon"} |->
     to_decimal(c, context)]

InitExport ==
  /\ e_pc = "call"
  /\ e_in \in [points : CsvFiles \cup {NoFile},
               routes : {f \in CsvFiles : f.headers = HeadersAlt} \cup {NoFile}]
  /\ e_out = NoKml
  /\ route = <<>>
  /\ msg = NoMsg
  /\ ops = 0
  /\ MasterIdle
  /\ ParseIdle
  /\ NavIdle
  /\ AltIdle
  /\ ColsIdle

CsvToKmlFromFiles ==
  /\ e_pc = "call"
  /\ e_out' = csv_to_kml_from_files(e_in.points, e_in.routes, ExportDecimalOf)
  /\ e_pc' = "done"
  /\ UNCHANGED <<pvars, nvars, hvars, cvars, mvars, route, msg, ops, e_in>>

NextExport == CsvToKmlFromFiles

SpecExport == InitExport /\ [][NextExport]_vars

\* the rows of a file whose lat and lon parse, whatever the altitude cell holds
Parsing(file) ==
  {i \in 1..Len(file.rows) :
     /\ ExportDecimalOf[CellOf(file.headers, file.rows[i], <<"L", "a", "t">>), "lat"].k = "float"
     /\ ExportDecimalOf[CellOf(file.headers, file.rows[i], <<"L", "o", "n">>), "lon"].k = "float"}

\* C23: csv_to_kml_from_files writes a placemark for every points row and a
\* route vertex for every routes row whose lat and lon parse, whatever the
\* altitude cell contains; an empty or unparseable altitude does not make
\* build_kml raise or abort the export.
C23_ExportLenient ==
  e_pc = "done" =>
    /\ e_out.res = "written"
    /\ Len(e_out.placemarks) = Cardinality(Parsing(e_in.points))
    /\ Cardinality(Parsing(e_in.routes)) >= 2
         => Len(e_out.coords) = Cardinality(Parsing(e_in.routes))

-----------------------------------------------------------------------------
\* C24: for every list of headers, when detect_coord_columns reports both a
\* latitude column and a longitude column they are two different columns;
\* one header that contains both substrings (e.g. "LatLong") is not reported
\* as both the latitude and the longitude column.
C24_DistinctColumns ==
  (/\ c_pc = "done"
   /\ c_fn \in CoordDetectors
   /\ c_out.lat.some /\ c_out.lon.some)
  => c_out.lat.s # c_out.lon.s

-----------------------------------------------------------------------------
\* the numeric tokens of an explicit-DMS text: what is left between the
\* hemisphere letters, the degree, minute and second marks, blanks and colons
DmsTokens(s) ==
  Tokens(ReplaceClass(Normalized(s), HemiChars \cup DmsMarks \cup {"ord", "rq"}, <<" ">>),
         {" ", ":"})

\* |deg| + min/60 + sec/3600 of two or three tokens
DmsMagnitude(toks) ==
  Abs(FloatVal(toks[1])) + RoundDiv(FloatVal(toks[2]), 60)
  + (IF Len(toks) = 3 THEN RoundDiv(FloatVal(toks[3]), 3600) ELSE 0)

\* C25: for every explicit-DMS string with 2 or 3 numeric tokens (deg,
\* min[, sec]) the magnitude of the value to_decimal returns is
\* |deg| + min/60 + sec/3600, also when the degree token carries a minus
\* sign ("-10 deg 30'" gives -10.5).
C25_DmsMagnitude ==
  (/\ p_pc = "done" /\ p_fn = "airway_builder" /\ p_in.t = "str"
   /\ p_out.k = "float" /\ p_out.g = "dms"
   /\ Len(DmsTokens(p_in.s)) \in {2, 3}
   /\ \A i \in 1..Len(DmsTokens(p_in.s)) : IsFloat(DmsTokens(p_in.s)[i]))
  => Abs(p_out.v) = DmsMagnitude(DmsTokens(p_in.s))

=============================================================================
